---- MODULE Spec2Model ----
(***************************************************************************)
(* Weekly kanban board of the homework manager: the KanbanView component   *)
(* (weekly bucketing, column derivation, board selection) and its          *)
(* write-then-refetch protocol against the persistence service.            *)
(*                                                                         *)
(* Time is counted in ticks since 1970-01-01 00:00 local time; a day has   *)
(* DayTicks ticks, so the last tick of a day stands for 23:59:59.999.      *)
(* A JavaScript null / undefined is written 0 for numbers and "undefined"  *)
(* for strings; an Invalid Date is written -1.                             *)
(***************************************************************************)
EXTENDS Integers, Sequences, FiniteSets, TLC

\* ------------------------------------------------------------------ bounds
DayTicks == 2      \* resolution of the clock: ticks per day
MaxItems == 3      \* longest assignment list given to the derivation
MaxDrops == 1      \* drops on a valid column in one run
MaxCodeLen == 5    \* longest course code given to the colour hash
MaxVersion == 1    \* contents of the editor's fields told apart: 0..MaxVersion
MaxActions == 2    \* View-Kanban and Export clicks in one run of the editor
MaxSaves == 2      \* Save clicks in one run of the editor
MaxFiles == 2      \* files dropped on the page or chosen in one run of App
MaxRequests == 4   \* requests App sends in one run

\* --------------------------------------------------------------- constants
weekStartsOn == 1  \* { weekStartsOn: 1 }: weeks start on Monday
WeekDays == 7      \* setDate(getDate() + 7)

InvalidDate == 0 - 1

\* ------------------------------------------------ date-fns, as called here
\* Date.getDay(): 0 = Sunday; day 0 (1970-01-01) is a Thursday
getDay(t) == ((t \div DayTicks) + 4) % 7

\* a week that starts on Sunday
startOfWeek_sunday(t) == ((t \div DayTicks) - getDay(t)) * DayTicks

\* startOfWeek(date, { weekStartsOn: 1 })
startOfWeek(t) ==
  LET day == getDay(t)
      diff == (IF day < weekStartsOn THEN 7 ELSE 0) + day - weekStartsOn
  IN ((t \div DayTicks) - diff) * DayTicks

\* a week that ends a day late
endOfWeek_long(t) ==
  LET day == getDay(t)
      diff == (IF day < weekStartsOn THEN 0 - 7 ELSE 0) + 7 - (day - weekStartsOn)
  IN ((t \div DayTicks) + diff) * DayTicks + (DayTicks - 1)

\* endOfWeek(date, { weekStartsOn: 1 }): the last tick of the week's Sunday
endOfWeek(t) ==
  LET day == getDay(t)
      diff == (IF day < weekStartsOn THEN 0 - 7 ELSE 0) + 6 - (day - weekStartsOn)
  IN ((t \div DayTicks) + diff) * DayTicks + (DayTicks - 1)

\* isWithinInterval(date, { start, end }): both ends inclusive
isWithinInterval(t, start, end) == t >= start /\ t <= end

\* a stride that is a day too long
nextWeekStart_long(currentWeekStart) == currentWeekStart + (WeekDays + 1) * DayTicks

\* currentWeekStart.setDate(currentWeekStart.getDate() + 7)
nextWeekStart(currentWeekStart) == currentWeekStart + WeekDays * DayTicks

\* the clock times the model writes, as offsets into the day
clockTick(due_time) ==
  CASE due_time = "12:00 AM" -> 0
    [] due_time = "12:00 PM" -> DayTicks \div 2
    [] due_time = "11:59 PM" -> DayTicks - 1
    [] OTHER -> InvalidDate

\* parse(`${due_date} ${due_time}`, 'yyyy-MM-dd h:mm a', new Date()):
\* due_date is the day number of a well-formed date, or negative for a
\* string that is no date; a due_time that is no 12-hour time gives Invalid Date
parse(due_date, due_time) ==
  IF due_date < 0 \/ clockTick(due_time) = InvalidDate
  THEN InvalidDate
  ELSE due_date * DayTicks + clockTick(due_time)

\* a catch that keeps the Invalid Date
dueDateTimeOf_invalid(assignment, now) == parse(assignment.due_date, assignment.due_time)

\* the try / catch around parse: an Invalid Date falls back to new Date()
dueDateTimeOf(assignment, now) ==
  LET dueDateTime == parse(assignment.due_date, assignment.due_time)
  IN IF dueDateTime = InvalidDate THEN now ELSE dueDateTime

\* ------------------------------------------------------------ weeklyBoards
\* currentData is [isArray, syllabi]: one syllabus, or an array of syllabi
RECURSIVE flatMap(_)
flatMap(syllabi) ==
  IF syllabi = <<>> THEN <<>>
  ELSE LET syllabus == Head(syllabi)
       IN [i \in 1..Len(syllabus.assignments) |->
             [id |-> syllabus.assignments[i].id,
              due_date |-> syllabus.assignments[i].due_date,
              due_time |-> syllabus.assignments[i].due_time,
              status |-> syllabus.assignments[i].status,
              courseCode |-> syllabus.id,
              syllabus_id |-> syllabus.id]]
            \o flatMap(Tail(syllabi))

allAssignmentsOf(currentData) == flatMap(currentData.syllabi)

assignmentsWithId(currentData, now) ==
  LET all == allAssignmentsOf(currentData)
  IN [i \in 1..Len(all) |->
        [id |-> all[i].id, status |-> all[i].status,
         courseCode |-> all[i].courseCode, syllabus_id |-> all[i].syllabus_id,
         dueDateTime |-> dueDateTimeOf(all[i], now)]]

\* an insertion that puts an element before the elements equal to it
RECURSIVE insertByDue_before(_, _)
insertByDue_before(x, s) ==
  IF s = <<>> THEN <<x>>
  ELSE IF Head(s).dueDateTime < x.dueDateTime
       THEN <<Head(s)>> \o insertByDue_before(x, Tail(s))
       ELSE <<x>> \o s

\* Array.prototype.sort with (a, b) => a.dueDateTime - b.dueDateTime: stable
RECURSIVE insertByDue(_, _)
insertByDue(x, s) ==
  IF s = <<>> THEN <<x>>
  ELSE IF Head(s).dueDateTime <= x.dueDateTime
       THEN <<Head(s)>> \o insertByDue(x, Tail(s))
       ELSE <<x>> \o s

RECURSIVE sortByDue(_)
sortByDue(s) ==
  IF s = <<>> THEN <<>>
  ELSE insertByDue(s[Len(s)], sortByDue(SubSeq(s, 1, Len(s) - 1)))

weekAssignmentsOf(sorted, currentWeekStart, weekEnd) ==
  SelectSeq(sorted, LAMBDA a : isWithinInterval(a.dueDateTime, currentWeekStart, weekEnd))

RECURSIVE weekLoop(_, _, _, _, _)
weekLoop(sorted, latestDate, currentWeekStart, weekNumber, boards) ==
  IF ~(currentWeekStart <= latestDate) THEN boards
  ELSE LET weekEnd == endOfWeek(currentWeekStart)
           weekAssignments == weekAssignmentsOf(sorted, currentWeekStart, weekEnd)
       IN IF Len(weekAssignments) > 0
          THEN weekLoop(sorted, latestDate, nextWeekStart(currentWeekStart), weekNumber + 1,
                        Append(boards, [weekNumber |-> weekNumber,
                                        startDate |-> currentWeekStart,
                                        endDate |-> weekEnd,
                                        assignments |-> weekAssignments]))
          ELSE weekLoop(sorted, latestDate, nextWeekStart(currentWeekStart), weekNumber, boards)

\* a week loop that numbers the windows, populated or not
RECURSIVE weekLoop_counting(_, _, _, _, _)
weekLoop_counting(sorted, latestDate, currentWeekStart, weekNumber, boards) ==
  IF ~(currentWeekStart <= latestDate) THEN boards
  ELSE LET weekEnd == endOfWeek(currentWeekStart)
           weekAssignments == weekAssignmentsOf(sorted, currentWeekStart, weekEnd)
       IN weekLoop_counting(sorted, latestDate, nextWeekStart(currentWeekStart), weekNumber + 1,
            IF Len(weekAssignments) > 0
            THEN Append(boards, [weekNumber |-> weekNumber,
                                 startDate |-> currentWeekStart,
                                 endDate |-> weekEnd,
                                 assignments |-> weekAssignments])
            ELSE boards)

weeklyBoardsOf_counting(currentData, now) ==
  LET sorted == sortByDue(assignmentsWithId(currentData, now))
  IN IF Len(sorted) = 0 THEN <<>>
     ELSE weekLoop_counting(sorted, sorted[Len(sorted)].dueDateTime,
                            startOfWeek(sorted[1].dueDateTime), 1, <<>>)

\* a derivation that answers an empty collection with one empty board
weeklyBoardsOf_emptyBoard(currentData, now) ==
  LET sorted == sortByDue(assignmentsWithId(currentData, now))
  IN IF Len(sorted) = 0
     THEN <<[weekNumber |-> 1, startDate |-> startOfWeek(now),
             endDate |-> endOfWeek(now), assignments |-> <<>>]>>
     ELSE weekLoop(sorted, sorted[Len(sorted)].dueDateTime,
                   startOfWeek(sorted[1].dueDateTime), 1, <<>>)

weeklyBoardsOf(currentData, now) ==
  LET sorted == sortByDue(assignmentsWithId(currentData, now))
  IN IF Len(sorted) = 0 THEN <<>>
     ELSE weekLoop(sorted, sorted[Len(sorted)].dueDateTime,
                   startOfWeek(sorted[1].dueDateTime), 1, <<>>)

allAssignmentsBoardOf(currentData, now) ==
  [assignments |-> assignmentsWithId(currentData, now)]

\* ----------------------------------------------- columns of the shown board
\* statusMap of handleDragEnd and handleAllAssignmentsMove; a key it does
\* not hold gives undefined
statusMap(columnId) ==
  CASE columnId = "not-started" -> "NOT_STARTED"
    [] columnId = "in-progress" -> "IN_PROGRESS"
    [] columnId = "done" -> "DONE"
    [] OTHER -> "undefined"

\* validColumns of the two drag handlers
validColumns == {"not-started", "in-progress", "done"}

idsOf(assignments) == [i \in 1..Len(assignments) |-> assignments[i].id]

\* a column effect that pushes to the front of each list
deriveColumns_unshift(assignments) ==
  [c \in validColumns |->
     LET picked == idsOf(SelectSeq(assignments, LAMBDA a : a.status = statusMap(c)))
     IN [i \in 1..Len(picked) |-> picked[Len(picked) + 1 - i]]]

\* the column effect of WeeklyBoard and of AllAssignmentsBoard: the switch
\* on assignment.status has no default branch
deriveColumns(assignments) ==
  [c \in validColumns |->
     idsOf(SelectSeq(assignments, LAMBDA a : a.status = statusMap(c)))]

\* -------------------------------------------------- persistence service
AssignmentIds == {1, 2}

\* the stored records: syllabus 1 owns assignment 1, due on a Sunday night;
\* syllabus 2 owns assignment 2, due in the week after the next
storedAssignment(id, status) ==
  [id |-> id,
   due_date |-> IF id = 1 THEN 10 ELSE 20,
   due_time |-> IF id = 1 THEN "11:59 PM" ELSE "12:00 PM",
   status |-> status]

\* GET /syllabi: every syllabus with its assignments, ids and statuses
allSyllabi(statusOf) ==
  << [id |-> 1, assignments |-> <<storedAssignment(1, statusOf[1])>>],
     [id |-> 2, assignments |-> <<storedAssignment(2, statusOf[2])>>] >>

\* the wall clock of the session: Tuesday of the week assignment 2 is due in
Today == 19 * DayTicks

VARIABLES
  data,               \* prop: [isArray, syllabi]
  isUnified,          \* prop
  serverStatus,       \* the status the persistence service holds, per assignment id
  freshData,          \* state of KanbanView: null, the data prop itself, or a fetched object
  isRefreshing,       \* state of KanbanView
  selectedWeek,       \* state of KanbanView: a week number, 0 for null
  selectedBoardType,  \* state of KanbanView
  columns,            \* state of the mounted board component: column id -> assignment ids
  calls,              \* requests in flight, in the order they were issued
  nDrops,             \* history: drops on a valid column so far
  anyFailed,          \* history: some request of this view has failed
  lastDrop,           \* history: the card and the column of the last drop on a column
  uncaught,           \* a rejection or an exception that no catch has handled
  deleted,            \* history: the cards deleted, and confirmed, on a weekly board
  lastEvent,          \* history: the handler that ran last
  bData, bNow, bBoards, bPc,  \* the derivation applied to an arbitrary collection
  bColumns,                   \* the columns derived for the board in bBoards
  bCode, bColor,              \* a course code (its UTF-16 code units) and its colour
  bWeekStart, bWeekNumber,    \* currentWeekStart and weekNumber of the running week loop
  bSorted,                    \* assignmentsWithId of the running derivation, sorted
  assignmentData, syllabusId, view,        \* App: the open syllabus and the view shown
  savedSyllabi, isLoadingSyllabi,          \* App: the saved list
  isDragOver, error,                       \* App: drag highlight, error banner
  uploadedFile, isUploaded, isAnalyzing,   \* App: the upload screen
  deleteModalOpen, syllabusToDelete,       \* App: the delete modal
  serverSyllabi,                           \* the syllabi the backend stores
  requests,                                \* App: the requests in flight and answered
  nFiles, droppedWhileOpen,                \* history: files dropped; those dropped on an open syllabus
  editorAssignments,                       \* AssignmentEditor: assignments (the version edited)
  hasUnsavedChanges, isSaving,             \* AssignmentEditor state
  showConfirmModal, pendingAction,
  originalDataRef,                         \* AssignmentEditor: originalDataRef.current
  saves,                                   \* the handleSave calls: the closure of each and its request
  timers,                                  \* the callbacks setTimeout holds
  nActions, executed, cancelled,           \* history: actions requested, runs of each, those cancelled
  nAlerts, nDataChange,                    \* history: alerts shown, onDataChange calls
  csvAssignment, csvRow                          \* an assignment of the editor and its exported row

kanbanVars == <<data, isUnified, serverStatus, freshData, isRefreshing,
                selectedWeek, selectedBoardType, columns, calls, nDrops, anyFailed, lastDrop, uncaught, deleted, lastEvent>>
boardVars == <<bData, bNow, bBoards, bPc, bColumns, bCode, bColor, bWeekStart, bWeekNumber, bSorted>>
vars == <<data, isUnified, serverStatus, freshData, isRefreshing,
          selectedWeek, selectedBoardType, columns, calls, nDrops, anyFailed, lastDrop, uncaught, deleted, lastEvent,
          bData, bNow, bBoards, bPc, bColumns, bCode, bColor, bWeekStart, bWeekNumber, bSorted,
          assignmentData, syllabusId, view, savedSyllabi, isLoadingSyllabi, isDragOver, error,
          uploadedFile, isUploaded, isAnalyzing, deleteModalOpen, syllabusToDelete, serverSyllabi,
          requests, nFiles, droppedWhileOpen,
          editorAssignments, hasUnsavedChanges, isSaving, showConfirmModal, pendingAction,
          originalDataRef, saves, timers, nActions, executed, cancelled, nAlerts, nDataChange,
          csvAssignment, csvRow>>
pageVars == <<assignmentData, syllabusId, view, savedSyllabi, isLoadingSyllabi, isDragOver, error,
              uploadedFile, isUploaded, isAnalyzing, deleteModalOpen, syllabusToDelete, serverSyllabi,
              requests, nFiles, droppedWhileOpen>>
editorVars == <<editorAssignments, hasUnsavedChanges, isSaving, showConfirmModal, pendingAction,
                originalDataRef, saves, timers, nActions, executed, cancelled, nAlerts, nDataChange>>
exportVars == <<csvAssignment, csvRow>>
appVars == <<pageVars, editorVars, exportVars>>

\* null, for data, for a syllabus of the list, and for a pending action
noData == [isNull |-> TRUE, id |-> 0, version |-> 0]
noSyllabus == [isNull |-> TRUE, id |-> 0]
noAction == [isNull |-> TRUE, kind |-> "", n |-> 0]

\* the App before its mount, nothing open in the editor, nothing exported
PageIdle ==
  /\ assignmentData = noData /\ syllabusId = 0 /\ view = "editor"
  /\ savedSyllabi = <<>> /\ isLoadingSyllabi = FALSE
  /\ isDragOver = FALSE /\ error = "null"
  /\ uploadedFile = 0 /\ isUploaded = FALSE /\ isAnalyzing = FALSE
  /\ deleteModalOpen = FALSE /\ syllabusToDelete = noSyllabus
  /\ serverSyllabi = {} /\ requests = <<>>
  /\ nFiles = 0 /\ droppedWhileOpen = {}

EditorIdle ==
  /\ editorAssignments = 0 /\ hasUnsavedChanges = FALSE /\ isSaving = FALSE
  /\ showConfirmModal = FALSE /\ pendingAction = noAction
  /\ originalDataRef = 0 /\ saves = <<>> /\ timers = <<>>
  /\ nActions = 0 /\ executed = <<>> /\ cancelled = {}
  /\ nAlerts = 0 /\ nDataChange = 0

ExportIdle == csvAssignment = <<>> /\ csvRow = <<>>

AppIdle == PageIdle /\ EditorIdle /\ ExportIdle

\* const currentData = freshData || data
currentDataOf(fd, d) == IF fd.src = "fresh" THEN fd.val ELSE d
currentData == currentDataOf(freshData, data)

weeklyBoards == weeklyBoardsOf(currentData, Today)
allAssignmentsBoard == allAssignmentsBoardOf(currentData, Today)

\* weeklyBoards.find(board => board.weekNumber === selectedWeek), as the list
\* of its assignments; no such board shows the "Select a board" pane
selectedBoardOf(boards, week) ==
  SelectSeq(boards, LAMBDA b : b.weekNumber = week)

\* the assignments of the board the main pane mounts
shownAssignmentsOf(cd, week, boardType) ==
  IF boardType = "all-assignments"
  THEN allAssignmentsBoardOf(cd, Today).assignments
  ELSE LET found == selectedBoardOf(weeklyBoardsOf(cd, Today), week)
       IN IF found = <<>> THEN <<>> ELSE found[1].assignments

shownAssignments == shownAssignmentsOf(currentData, selectedWeek, selectedBoardType)

\* an effect that always takes the first week
autoSelect_first(boards, week, boardType) ==
  IF Len(boards) > 0 /\ week = 0 /\ boardType = "weekly"
  THEN boards[1].weekNumber
  ELSE week

\* the auto-select effect: the week holding today, else the first week
autoSelect(boards, week, boardType) ==
  IF Len(boards) > 0 /\ week = 0 /\ boardType = "weekly"
  THEN LET currentWeek == SelectSeq(boards,
                            LAMBDA b : isWithinInterval(Today, b.startDate, b.endDate))
       IN IF currentWeek # <<>> THEN currentWeek[1].weekNumber ELSE boards[1].weekNumber
  ELSE week

\* the notices KanbanView renders beside the boards: the refreshing
\* indicator, "No weekly boards available", "Select a board from the sidebar"
visibleMessages ==
  (IF isRefreshing THEN {"refreshing"} ELSE {})
  \cup (IF Len(weeklyBoards) = 0 THEN {"no-boards"} ELSE {})
  \cup (IF selectedBoardType = "weekly" /\ selectedBoardOf(weeklyBoards, selectedWeek) = <<>>
        THEN {"no-selection"} ELSE {})

\* a render whose auto-select effect runs on every fresh board list
Render_reselect(fd, week, boardType, isNewObject) ==
  LET cd == currentDataOf(fd, data)
      week2 == autoSelect(weeklyBoardsOf(cd, Today), IF isNewObject THEN 0 ELSE week, boardType)
      recomputed == isNewObject \/ ((fd.src = "fresh") # (freshData.src = "fresh"))
      remounted == boardType # selectedBoardType
                   \/ (boardType = "weekly" /\ week2 # selectedWeek)
  IN /\ freshData' = fd
     /\ selectedWeek' = week2
     /\ selectedBoardType' = boardType
     /\ columns' = IF recomputed \/ remounted
                   THEN deriveColumns(shownAssignmentsOf(cd, week2, boardType))
                   ELSE columns

\* One render with its effects. fd, week and boardType are the state the
\* handler has set; isNewObject says that fd is an object no render has seen.
\* The boards are memoised on the identity of currentData; the board
\* component is remounted when the board type or the week (its key) changes,
\* and its column effect runs on mount and when board.assignments is a new
\* array. Otherwise the columns keep what the component's state holds.
Render(fd, week, boardType, isNewObject) ==
  LET cd == currentDataOf(fd, data)
      week2 == autoSelect(weeklyBoardsOf(cd, Today), week, boardType)
      recomputed == isNewObject \/ ((fd.src = "fresh") # (freshData.src = "fresh"))
      remounted == boardType # selectedBoardType
                   \/ (boardType = "weekly" /\ week2 # selectedWeek)
  IN /\ freshData' = fd
     /\ selectedWeek' = week2
     /\ selectedBoardType' = boardType
     /\ columns' = IF recomputed \/ remounted
                   THEN deriveColumns(shownAssignmentsOf(cd, week2, boardType))
                   ELSE columns

\* ------------------------------------------------------- requests in flight
\* A request in flight, with the history of the drop it belongs to: the
\* column the card was taken from and dropped on, whether nothing else has
\* been in flight since the drop, and how many status updates were issued
\* (upd), how many of them succeeded (updOk) and how many refetches were
\* issued (fet) for the drop so far. k names what runs once the request and
\* the refreshData after it are over.
updateCall(h, k, aid, status) ==
  [op |-> "update", phase |-> "sent", k |-> k, aid |-> aid, status |-> status,
   snap |-> <<>>, from |-> h.from, target |-> h.target, alone |-> h.alone,
   upd |-> h.upd + 1, updOk |-> h.updOk, fet |-> h.fet]

fetchCall(h, k, aid, status) ==
  [op |-> "fetch", phase |-> "sent", k |-> k, aid |-> aid, status |-> status,
   snap |-> <<>>, from |-> h.from, target |-> h.target, alone |-> h.alone,
   upd |-> h.upd, updOk |-> h.updOk, fet |-> h.fet + 1]

noHistory == [from |-> "none", target |-> "none", alone |-> TRUE,
              upd |-> 0, updOk |-> 0, fet |-> 0]

without(s, i) == SubSeq(s, 1, i - 1) \o SubSeq(s, i + 1, Len(s))

\* the card of assignment aid is in a column of the mounted board
displayedColumnOf(cols, aid) ==
  IF \E c \in validColumns : \E i \in 1..Len(cols[c]) : cols[c][i] = aid
  THEN CHOOSE c \in validColumns : \E i \in 1..Len(cols[c]) : cols[c][i] = aid
  ELSE "none"

isDisplayed(aid) == displayedColumnOf(columns, aid) # "none"

\* ------------------------------------------------------------- refreshData
\* what a response with success and data makes setFreshData store
refreshedData(freshSyllabi) ==
  IF isUnified
  THEN [src |-> "fresh", val |-> [isArray |-> TRUE, syllabi |-> freshSyllabi]]
  ELSE LET currentSyllabusId == IF data.syllabi = <<>> THEN 0 ELSE data.syllabi[1].id
           matchingSyllabus == SelectSeq(freshSyllabi, LAMBDA x : x.id = currentSyllabusId)
       IN IF matchingSyllabus # <<>>
          THEN [src |-> "fresh",
                val |-> [isArray |-> FALSE, syllabi |-> <<matchingSyllabus[1]>>]]
          ELSE [src |-> "prop"]

\* what the catch branch and the else branch make setFreshData store
fallbackData == [src |-> "prop"]

\* what runs once `await onRefreshData()` returns: WeeklyBoard's
\* onAssignmentMove only logs, AllAssignmentsBoard's is
\* handleAllAssignmentsMove, which issues a status update of its own
afterRefresh(c, rest) ==
  IF c.k = "all"
  THEN Append(rest, updateCall(c, "allMove", c.aid, statusMap(c.target)))
  ELSE rest

\* the persistence service handles a status update: PUT /assignments/{id}/status
ServerUpdate(i) ==
  /\ calls[i].op = "update" /\ calls[i].phase = "sent"
  /\ serverStatus' = [serverStatus EXCEPT ![calls[i].aid] = calls[i].status]
  /\ calls' = [calls EXCEPT ![i].phase = "served"]
  /\ lastEvent' = "server"
  /\ UNCHANGED <<data, isUnified, freshData, isRefreshing, selectedWeek,
                 selectedBoardType, columns, nDrops, anyFailed, lastDrop, uncaught, deleted, boardVars, appVars>>

\* the persistence service handles GET /syllabi
ServerFetch(i) ==
  /\ calls[i].op = "fetch" /\ calls[i].phase = "sent"
  /\ calls' = [calls EXCEPT ![i].phase = "served", ![i].snap = allSyllabi(serverStatus)]
  /\ lastEvent' = "server"
  /\ UNCHANGED <<data, isUnified, serverStatus, freshData, isRefreshing, selectedWeek,
                 selectedBoardType, columns, nDrops, anyFailed, lastDrop, uncaught, deleted, boardVars, appVars>>

\* updateAssignmentStatus resolves: the handler goes on to refreshData,
\* which sets isRefreshing and calls getAllSyllabi
UpdateResolves(i) ==
  /\ calls[i].op = "update" /\ calls[i].phase = "served"
  /\ isRefreshing' = TRUE
  /\ calls' = Append(without(calls, i),
                     fetchCall([calls[i] EXCEPT !.updOk = @ + 1],
                               calls[i].k, calls[i].aid, calls[i].status))
  /\ lastEvent' = "updateOk"
  /\ UNCHANGED <<data, isUnified, serverStatus, freshData, selectedWeek,
                 selectedBoardType, columns, nDrops, anyFailed, lastDrop, uncaught, deleted, boardVars, appVars>>

\* a catch that goes on to refresh
UpdateRejects_refresh(i) ==
  /\ calls[i].op = "update"
  /\ isRefreshing' = TRUE
  /\ calls' = Append(without(calls, i),
                     fetchCall(calls[i], calls[i].k, calls[i].aid, calls[i].status))
  /\ lastEvent' = "updateFail"
  /\ anyFailed' = TRUE
  /\ UNCHANGED <<data, isUnified, serverStatus, freshData, selectedWeek,
                 selectedBoardType, columns, nDrops, lastDrop, uncaught, deleted, boardVars, appVars>>

\* a catch that sends the update again
UpdateRejects_retry(i) ==
  /\ calls[i].op = "update"
  /\ calls' = Append(without(calls, i),
                     updateCall(calls[i], calls[i].k, calls[i].aid, calls[i].status))
  /\ lastEvent' = "updateFail"
  /\ anyFailed' = TRUE
  /\ UNCHANGED <<data, isUnified, serverStatus, freshData, isRefreshing, selectedWeek,
                 selectedBoardType, columns, nDrops, lastDrop, uncaught, deleted, boardVars, appVars>>

\* updateAssignmentStatus throws (no connection, a lost response, or a
\* response that is not ok): the handler's catch logs to the console
UpdateRejects(i) ==
  /\ calls[i].op = "update"
  /\ calls' = without(calls, i)
  /\ lastEvent' = "updateFail"
  /\ anyFailed' = TRUE
  /\ UNCHANGED <<data, isUnified, serverStatus, freshData, isRefreshing, selectedWeek,
                 selectedBoardType, columns, nDrops, lastDrop, uncaught, deleted, boardVars, appVars>>

\* a refreshData with a sequencing guard: the response of a refetch that was
\* issued before a later drop is dropped
FetchResolves_guarded(i) ==
  /\ calls[i].op = "fetch" /\ calls[i].phase = "served"
  /\ IF calls[i].k = "mount" /\ ~calls[i].alone
     THEN UNCHANGED <<freshData, selectedWeek, selectedBoardType, columns>>
     ELSE LET fd == refreshedData(calls[i].snap)
          IN Render(fd, selectedWeek, selectedBoardType, fd.src = "fresh")
  /\ isRefreshing' = FALSE
  /\ calls' = afterRefresh(calls[i], without(calls, i))
  /\ lastEvent' = "fetchOk"
  /\ UNCHANGED <<data, isUnified, serverStatus, nDrops, anyFailed, lastDrop, uncaught, deleted, boardVars, appVars>>

\* getAllSyllabi resolves with success and data
FetchResolves(i) ==
  /\ calls[i].op = "fetch" /\ calls[i].phase = "served"
  /\ LET fd == refreshedData(calls[i].snap)
     IN Render(fd, selectedWeek, selectedBoardType, fd.src = "fresh")
  /\ isRefreshing' = FALSE
  /\ calls' = afterRefresh(calls[i], without(calls, i))
  /\ lastEvent' = "fetchOk"
  /\ UNCHANGED <<data, isUnified, serverStatus, nDrops, anyFailed, lastDrop, uncaught, deleted, boardVars, appVars>>

\* a refreshData without its catch: finally still resets the indicator, the
\* working copy is left alone and the error travels to the caller, which is
\* the mount effect (nobody awaits it) or a drag handler's try block
FetchFails_rethrow(i) ==
  /\ calls[i].op = "fetch"
  /\ isRefreshing' = FALSE
  /\ calls' = without(calls, i)
  /\ uncaught' = (uncaught \/ calls[i].k = "mount")
  /\ lastEvent' = "fetchFail"
  /\ anyFailed' = TRUE
  /\ UNCHANGED <<data, isUnified, serverStatus, freshData, selectedWeek, selectedBoardType,
                 columns, nDrops, lastDrop, deleted, boardVars, appVars>>

\* getAllSyllabi throws, or resolves without success or data
FetchFails(i) ==
  /\ calls[i].op = "fetch"
  /\ Render(fallbackData, selectedWeek, selectedBoardType, FALSE)
  /\ isRefreshing' = FALSE
  /\ calls' = afterRefresh(calls[i], without(calls, i))
  /\ lastEvent' = "fetchFail"
  /\ anyFailed' = TRUE
  /\ UNCHANGED <<data, isUnified, serverStatus, nDrops, lastDrop, uncaught, deleted, boardVars, appVars>>

\* --------------------------------------------------------------- drag end
\* where a drag can end: on nothing, on another card (every card is a
\* droppable of its own), or on one of the three columns
DropTargets == {"none", "card"} \cup validColumns

\* history: a drag that ended on a column, or off every column
dragKind(over) == IF over \in {"not-started", "in-progress", "done"} THEN "dragEnd" ELSE "dragOff"

\* guards that only ask for a drop target
dropAccepted_lax(over) == over # "none"

\* the guards of handleDragEnd before anything is sent
dropAccepted(over) ==
  /\ over # "none"
  /\ over \in validColumns
  /\ statusMap(over) # "undefined"

noDrop == [aid |-> 0, target |-> "none"]

\* the status after the one the card's column stands for
nextStatus(columnId) ==
  CASE columnId = "not-started" -> "IN_PROGRESS"
    [] OTHER -> "DONE"

\* a handler that asks for the card's next status, whatever the target
sendWithin_next(limit, k, aid, over) ==
  /\ nDrops < limit
  /\ nDrops' = nDrops + 1
  /\ lastDrop' = [aid |-> aid, target |-> over]
  /\ calls' = Append([i \in 1..Len(calls) |-> [calls[i] EXCEPT !.alone = FALSE]],
                     updateCall([noHistory EXCEPT !.from = displayedColumnOf(columns, aid),
                                                  !.target = over,
                                                  !.alone = (calls = <<>>)],
                                k, aid, nextStatus(displayedColumnOf(columns, aid))))
  /\ lastEvent' = dragKind(over)
  /\ UNCHANGED <<data, isUnified, serverStatus, freshData, isRefreshing, selectedWeek,
                 selectedBoardType, columns, anyFailed, uncaught, deleted, boardVars, appVars>>

\* await updateAssignmentStatus(assignmentId, newStatus), up to the request;
\* limit bounds the drops of one run
sendWithin(limit, k, aid, over) ==
  /\ nDrops < limit
  /\ nDrops' = nDrops + 1
  /\ lastDrop' = [aid |-> aid, target |-> over]
  /\ calls' = Append([i \in 1..Len(calls) |-> [calls[i] EXCEPT !.alone = FALSE]],
                     updateCall([noHistory EXCEPT !.from = displayedColumnOf(columns, aid),
                                                  !.target = over,
                                                  !.alone = (calls = <<>>)],
                                k, aid, statusMap(over)))
  /\ lastEvent' = dragKind(over)
  /\ UNCHANGED <<data, isUnified, serverStatus, freshData, isRefreshing, selectedWeek,
                 selectedBoardType, columns, anyFailed, uncaught, deleted, boardVars, appVars>>

sendStatusUpdate(k, aid, over) == sendWithin(MaxDrops, k, aid, over)

\* the early returns of the drag handlers
ignoreDrop(over) ==
  /\ lastEvent' = dragKind(over)
  /\ UNCHANGED <<data, isUnified, serverStatus, freshData, isRefreshing, selectedWeek,
                 selectedBoardType, columns, calls, nDrops, anyFailed, lastDrop, uncaught, deleted, boardVars, appVars>>

\* WeeklyBoard.handleDragEnd for the card of assignment aid
WeeklyDragEnd(aid, over) ==
  /\ selectedBoardType = "weekly" /\ isDisplayed(aid)
  /\ IF dropAccepted(over) /\ isDisplayed(aid)
     THEN sendStatusUpdate("weekly", aid, over)
     ELSE ignoreDrop(over)

\* the same handler for a user who waits until nothing is in flight and
\* then repeats the drop made before
RepeatWeeklyDragEnd(aid, over) ==
  /\ calls = <<>>
  /\ lastDrop \in {noDrop, [aid |-> aid, target |-> over]}
  /\ selectedBoardType = "weekly" /\ isDisplayed(aid)
  /\ IF dropAccepted(over) /\ isDisplayed(aid)
     THEN sendWithin(MaxDrops + 1, "weekly", aid, over)
     ELSE ignoreDrop(over)

\* AllAssignmentsBoard.handleDragEnd for the card of assignment aid
AllDragEnd(aid, over) ==
  /\ selectedBoardType = "all-assignments" /\ isDisplayed(aid)
  /\ IF dropAccepted(over)
     THEN sendStatusUpdate("all", aid, over)
     ELSE ignoreDrop(over)

RepeatAllDragEnd(aid, over) ==
  /\ calls = <<>>
  /\ lastDrop \in {noDrop, [aid |-> aid, target |-> over]}
  /\ selectedBoardType = "all-assignments" /\ isDisplayed(aid)
  /\ IF dropAccepted(over)
     THEN sendWithin(MaxDrops + 1, "all", aid, over)
     ELSE ignoreDrop(over)

\* ----------------------------------------------------------------- delete
\* a delete button that does not wait for the answer
WeeklyDelete_noConfirm(aid, confirmed) ==
  /\ selectedBoardType = "weekly" /\ isDisplayed(aid)
  /\ columns' = [c \in validColumns |-> SelectSeq(columns[c], LAMBDA x : x # aid)]
  /\ deleted' = deleted \cup {aid}
  /\ lastEvent' = IF confirmed THEN "delete" ELSE "deleteDeclined"
  /\ UNCHANGED <<data, isUnified, serverStatus, freshData, isRefreshing, selectedWeek,
                 selectedBoardType, calls, nDrops, anyFailed, lastDrop, uncaught, boardVars, appVars>>

\* a delete handler that asks the persistence service to delete the record
WeeklyDelete_persist(aid, confirmed) ==
  /\ selectedBoardType = "weekly" /\ isDisplayed(aid)
  /\ columns' = IF confirmed
                THEN [c \in validColumns |-> SelectSeq(columns[c], LAMBDA x : x # aid)]
                ELSE columns
  /\ deleted' = IF confirmed THEN deleted \cup {aid} ELSE deleted
  /\ calls' = IF confirmed
              THEN Append(calls, [updateCall(noHistory, "weekly", aid, "undefined")
                                    EXCEPT !.op = "delete"])
              ELSE calls
  /\ lastEvent' = IF confirmed THEN "delete" ELSE "deleteDeclined"
  /\ UNCHANGED <<data, isUnified, serverStatus, freshData, isRefreshing, selectedWeek,
                 selectedBoardType, nDrops, anyFailed, lastDrop, uncaught, boardVars, appVars>>

\* AssignmentCard.handleDelete on the weekly board: window.confirm, then
\* WeeklyBoard.handleDeleteAssignment filters the columns, and
\* KanbanView.handleDeleteAssignment logs
WeeklyDelete(aid, confirmed) ==
  /\ selectedBoardType = "weekly" /\ isDisplayed(aid)
  /\ columns' = IF confirmed
                THEN [c \in validColumns |-> SelectSeq(columns[c], LAMBDA x : x # aid)]
                ELSE columns
  /\ deleted' = IF confirmed THEN deleted \cup {aid} ELSE deleted
  /\ lastEvent' = IF confirmed THEN "delete" ELSE "deleteDeclined"
  /\ UNCHANGED <<data, isUnified, serverStatus, freshData, isRefreshing, selectedWeek,
                 selectedBoardType, calls, nDrops, anyFailed, lastDrop, uncaught, boardVars, appVars>>

\* AssignmentCard.handleDelete on the all-assignments board: window.confirm,
\* then AllAssignmentsBoard.handleDeleteAssignment asks once more, and
\* KanbanView.handleAllAssignmentsDelete logs
AllDelete(aid, confirmed, confirmedAgain) ==
  /\ selectedBoardType = "all-assignments" /\ isDisplayed(aid)
  /\ lastEvent' = IF confirmed /\ confirmedAgain THEN "delete" ELSE "deleteDeclined"
  /\ UNCHANGED <<data, isUnified, serverStatus, freshData, isRefreshing, selectedWeek,
                 selectedBoardType, columns, calls, nDrops, anyFailed, lastDrop, uncaught, deleted, boardVars, appVars>>

\* -------------------------------------------------------------- selection
\* the "All Assignments" button of the sidebar
SelectAllAssignments ==
  /\ Render(freshData, selectedWeek, "all-assignments", FALSE)
  /\ lastEvent' = "select"
  /\ UNCHANGED <<data, isUnified, serverStatus, isRefreshing, calls, nDrops, anyFailed, lastDrop, uncaught, deleted, boardVars, appVars>>

\* the button of week n in the sidebar
SelectWeek(n) ==
  /\ \E i \in 1..Len(weeklyBoards) : weeklyBoards[i].weekNumber = n
  /\ Render(freshData, n, "weekly", FALSE)
  /\ lastEvent' = "select"
  /\ UNCHANGED <<data, isUnified, serverStatus, isRefreshing, calls, nDrops, anyFailed, lastDrop, uncaught, deleted, boardVars, appVars>>

\* ------------------------------------------------------------------- mount
\* the data prop: as App.handleViewSyllabusKanban builds it (no status), or
\* as the Assignment type declares it (here: every status NOT_STARTED)
propSyllabi(typed) ==
  allSyllabi([id \in AssignmentIds |-> IF typed THEN "NOT_STARTED" ELSE "undefined"])

propData(form, typed) ==
  IF form = "single"
  THEN [isArray |-> FALSE, syllabi |-> <<propSyllabi(typed)[1]>>]
  ELSE [isArray |-> TRUE, syllabi |-> propSyllabi(typed)]

noColumns == [c \in validColumns |-> <<>>]

noBoardInput == [isArray |-> FALSE, syllabi |-> <<[id |-> 1, assignments |-> <<>>]>>]

\* the first render of KanbanView and its effects: the mount effect has
\* called refreshData, the auto-select effect has chosen a week
Mounted(form, typed) ==
  /\ data = propData(form, typed)
  /\ isUnified = (form = "unified")
  /\ serverStatus = [id \in AssignmentIds |-> "NOT_STARTED"]
  /\ freshData = [src |-> "null"]
  /\ isRefreshing = TRUE
  /\ selectedBoardType = "weekly"
  /\ selectedWeek = autoSelect(weeklyBoardsOf(data, Today), 0, "weekly")
  /\ columns = deriveColumns(shownAssignmentsOf(data, selectedWeek, "weekly"))
  /\ calls = <<fetchCall(noHistory, "mount", 0, "undefined")>>
  /\ nDrops = 0
  /\ anyFailed = FALSE
  /\ lastDrop = noDrop
  /\ uncaught = FALSE
  /\ deleted = {}
  /\ lastEvent = "mount"

Init ==
  /\ \/ Mounted("single", FALSE)
     \/ \E form \in {"single", "array", "unified"} : Mounted(form, TRUE)
  /\ bData = noBoardInput /\ bNow = 0 /\ bBoards = <<>> /\ bPc = "idle"
  /\ bColumns = noColumns
  /\ bCode = <<>> /\ bColor = ""
  /\ bWeekStart = 0 /\ bWeekNumber = 1 /\ bSorted = <<>>
  /\ AppIdle

Next ==
  \/ \E i \in 1..Len(calls) : ServerUpdate(i)
  \/ \E i \in 1..Len(calls) : ServerFetch(i)
  \/ \E i \in 1..Len(calls) : UpdateResolves(i)
  \/ \E i \in 1..Len(calls) : UpdateRejects(i)
  \/ \E i \in 1..Len(calls) : FetchResolves(i)
  \/ \E i \in 1..Len(calls) : FetchFails(i)
  \/ \E aid \in AssignmentIds : \E over \in DropTargets : WeeklyDragEnd(aid, over)
  \/ \E aid \in AssignmentIds : \E over \in DropTargets : AllDragEnd(aid, over)
  \/ \E aid \in AssignmentIds : \E confirmed \in BOOLEAN : WeeklyDelete(aid, confirmed)
  \/ \E aid \in AssignmentIds : \E c1 \in BOOLEAN : \E c2 \in BOOLEAN : AllDelete(aid, c1, c2)
  \/ SelectAllAssignments
  \/ \E n \in 1..Cardinality(AssignmentIds) : SelectWeek(n)

Spec == Init /\ [][Next]_vars

\* --------------------------------------------- a user who repeats a drop
\* the user acts only when no request is in flight, and every drop after
\* the first is the first one again
QuietSelectAllAssignments == calls = <<>> /\ SelectAllAssignments

NextRepeat ==
  \/ \E i \in 1..Len(calls) : ServerUpdate(i)
  \/ \E i \in 1..Len(calls) : ServerFetch(i)
  \/ \E i \in 1..Len(calls) : UpdateResolves(i)
  \/ \E i \in 1..Len(calls) : UpdateRejects(i)
  \/ \E i \in 1..Len(calls) : FetchResolves(i)
  \/ \E i \in 1..Len(calls) : FetchFails(i)
  \/ \E aid \in AssignmentIds : \E over \in DropTargets : RepeatWeeklyDragEnd(aid, over)
  \/ \E aid \in AssignmentIds : \E over \in DropTargets : RepeatAllDragEnd(aid, over)
  \/ QuietSelectAllAssignments

SpecRepeat == Init /\ [][NextRepeat]_vars

\* ------------------------------- a host that feeds the refreshed data back
\* KanbanView is given an onDataRefresh that stores its argument in the
\* host's state and passes it down again as the data prop
InitHost ==
  /\ \E form \in {"single", "array", "unified"} : Mounted(form, TRUE)
  /\ bData = noBoardInput /\ bNow = 0 /\ bBoards = <<>> /\ bPc = "idle"
  /\ bColumns = noColumns
  /\ bCode = <<>> /\ bColor = ""
  /\ bWeekStart = 0 /\ bWeekNumber = 1 /\ bSorted = <<>>
  /\ AppIdle

\* getAllSyllabi resolves with success and data: setFreshData, then
\* onDataRefresh hands the fetched object to the host; the next render gets
\* it as a new data prop, so the effect with the dependencies
\* [data, isUnified, onDataRefresh] runs refreshData again
HostFetchResolves(i) ==
  /\ calls[i].op = "fetch" /\ calls[i].phase = "served"
  /\ LET fd == refreshedData(calls[i].snap)
     IN /\ Render(fd, selectedWeek, selectedBoardType, fd.src = "fresh")
        /\ IF fd.src = "fresh"
           THEN /\ data' = fd.val
                /\ isRefreshing' = TRUE
                /\ calls' = Append(afterRefresh(calls[i], without(calls, i)),
                                   fetchCall(noHistory, "mount", 0, "undefined"))
           ELSE /\ data' = data
                /\ isRefreshing' = FALSE
                /\ calls' = afterRefresh(calls[i], without(calls, i))
  /\ lastEvent' = "fetchOk"
  /\ UNCHANGED <<isUnified, serverStatus, nDrops, anyFailed, lastDrop, uncaught, deleted, boardVars, appVars>>

\* HostFetchResolves as far as the requests and the event go: the steps of
\* NextHost that satisfy it are the steps of HostFetchResolves, and it is
\* enabled in the same states
FetchContinues(i) ==
  /\ calls[i].op = "fetch" /\ calls[i].phase = "served"
  /\ refreshedData(calls[i].snap).src = "fresh"
  /\ calls' = Append(afterRefresh(calls[i], without(calls, i)),
                     fetchCall(noHistory, "mount", 0, "undefined"))
  /\ lastEvent' = "fetchOk"

NextHost ==
  \/ \E i \in 1..Len(calls) : ServerUpdate(i)
  \/ \E i \in 1..Len(calls) : ServerFetch(i)
  \/ \E i \in 1..Len(calls) : UpdateResolves(i)
  \/ \E i \in 1..Len(calls) : HostFetchResolves(i)
  \/ \E aid \in AssignmentIds : \E over \in DropTargets : WeeklyDragEnd(aid, over)
  \/ \E aid \in AssignmentIds : \E over \in DropTargets : AllDragEnd(aid, over)
  \/ SelectAllAssignments

\* the service answers every request and every promise continuation runs
SpecHost ==
  /\ InitHost /\ [][NextHost]_vars
  /\ WF_vars(\E i \in 1..Len(calls) : ServerUpdate(i))
  /\ WF_vars(\E i \in 1..Len(calls) : ServerFetch(i))
  /\ WF_vars(\E i \in 1..Len(calls) : UpdateResolves(i))
  /\ WF_<<calls, lastEvent>>(\E i \in 1..Len(calls) : FetchContinues(i))

\* ------------------------------------- the derivation on arbitrary input
\* due dates: no date, Sunday 1970-01-11, Monday 01-12, Monday 01-26;
\* due times: midnight, one minute to midnight, no time
DueDates == {0 - 1, 10, 11, 25}
DueTimes == {"12:00 AM", "11:59 PM", ""}
NowChoices == {5 * DayTicks + 1, 40 * DayTicks}

\* one syllabus whose k assignments carry the ids 1..k
BoardInputs ==
  UNION {
    { [isArray |-> FALSE,
       syllabi |-> <<[id |-> 1,
                      assignments |-> [i \in 1..k |->
                         [id |-> i, due_date |-> dd[i], due_time |-> dt[i],
                          status |-> "NOT_STARTED"]]]>>]
      : dd \in [1..k -> DueDates], dt \in [1..k -> DueTimes] }
    : k \in 0..MaxItems }

InitBoards ==
  /\ Mounted("single", FALSE)
  /\ bData \in BoardInputs
  /\ bNow \in NowChoices
  /\ bBoards = <<>>
  /\ bPc = "input"
  /\ bColumns = noColumns
  /\ bCode = <<>> /\ bColor = ""
  /\ bWeekStart = 0 /\ bWeekNumber = 1 /\ bSorted = <<>>
  /\ AppIdle

\* the weeklyBoards memo is computed for the input
ComputeBoards ==
  /\ bPc = "input"
  /\ bBoards' = weeklyBoardsOf(bData, bNow)
  /\ bPc' = "done"
  /\ UNCHANGED <<bData, bNow, bColumns, bCode, bColor, bWeekStart, bWeekNumber, bSorted, kanbanVars, appVars>>

NextBoards == ComputeBoards

SpecBoards == InitBoards /\ [][NextBoards]_vars

\* ------------------------------------------ the week loop, one turn at a time
\* the memo's function has been called on a collection and has built and
\* sorted assignmentsWithId
InitLoop ==
  /\ Mounted("single", FALSE)
  /\ bData \in BoardInputs
  /\ bNow \in NowChoices
  /\ bSorted = sortByDue(assignmentsWithId(bData, bNow))
  /\ AppIdle
  /\ bBoards = <<>> /\ bPc = "input"
  /\ bColumns = noColumns
  /\ bCode = <<>> /\ bColor = ""
  /\ bWeekStart = 0 /\ bWeekNumber = 1

\* the statements before the while loop; an empty collection returns at once
StartLoop ==
  /\ bPc = "input"
  /\ IF Len(bSorted) = 0
     THEN bPc' = "done" /\ UNCHANGED <<bWeekStart, bWeekNumber>>
     ELSE /\ bPc' = "loop"
          /\ bWeekStart' = startOfWeek(bSorted[1].dueDateTime)
          /\ bWeekNumber' = 1
  /\ UNCHANGED <<bData, bNow, bBoards, bSorted, bColumns, bCode, bColor, kanbanVars, appVars>>

\* a loop body that moves on only after a populated week
LoopStep_stall ==
  /\ bPc = "loop"
  /\ bWeekStart <= bSorted[Len(bSorted)].dueDateTime
  /\ LET weekEnd == endOfWeek(bWeekStart)
         weekAssignments == weekAssignmentsOf(bSorted, bWeekStart, weekEnd)
     IN IF Len(weekAssignments) > 0
        THEN /\ bBoards' = Append(bBoards, [weekNumber |-> bWeekNumber,
                                            startDate |-> bWeekStart,
                                            endDate |-> weekEnd,
                                            assignments |-> weekAssignments])
             /\ bWeekNumber' = bWeekNumber + 1
             /\ bWeekStart' = nextWeekStart(bWeekStart)
        ELSE UNCHANGED <<bBoards, bWeekNumber, bWeekStart>>
  /\ UNCHANGED <<bData, bNow, bPc, bSorted, bColumns, bCode, bColor, kanbanVars, appVars>>

\* one turn of while (currentWeekStart <= latestDate)
LoopStep ==
  /\ bPc = "loop"
  /\ bWeekStart <= bSorted[Len(bSorted)].dueDateTime
  /\ LET weekEnd == endOfWeek(bWeekStart)
         weekAssignments == weekAssignmentsOf(bSorted, bWeekStart, weekEnd)
     IN IF Len(weekAssignments) > 0
        THEN /\ bBoards' = Append(bBoards, [weekNumber |-> bWeekNumber,
                                            startDate |-> bWeekStart,
                                            endDate |-> weekEnd,
                                            assignments |-> weekAssignments])
             /\ bWeekNumber' = bWeekNumber + 1
        ELSE UNCHANGED <<bBoards, bWeekNumber>>
  /\ bWeekStart' = nextWeekStart(bWeekStart)
  /\ UNCHANGED <<bData, bNow, bPc, bSorted, bColumns, bCode, bColor, kanbanVars, appVars>>

\* the loop condition fails: return boards
LoopExit ==
  /\ bPc = "loop"
  /\ ~(bWeekStart <= bSorted[Len(bSorted)].dueDateTime)
  /\ bPc' = "done"
  /\ UNCHANGED <<bData, bNow, bBoards, bSorted, bColumns, bCode, bColor, bWeekStart,
                 bWeekNumber, kanbanVars, appVars>>

NextLoop == StartLoop \/ LoopStep \/ LoopExit

\* the memo's function runs to completion once it is called
SpecLoop == InitLoop /\ [][NextLoop]_vars /\ WF_vars(NextLoop)

\* ------------------------------------------- the first render and its effects
\* due days around today: two weeks back, last week, this week, next week
SelectDueDates == {3, 10, 20, 27}

SelectInputs ==
  UNION {
    { [isArray |-> FALSE,
       syllabi |-> <<[id |-> 1,
                      assignments |-> [i \in 1..k |->
                         [id |-> i, due_date |-> dd[i], due_time |-> "12:00 PM",
                          status |-> "NOT_STARTED"]]]>>]
      : dd \in [1..k -> SelectDueDates] }
    : k \in 0..MaxItems }

\* the first render of KanbanView, before its effects have run
InitSelect ==
  /\ data \in SelectInputs
  /\ isUnified = FALSE
  /\ serverStatus = [id \in AssignmentIds |-> "NOT_STARTED"]
  /\ freshData = [src |-> "null"]
  /\ isRefreshing = FALSE
  /\ selectedBoardType = "weekly"
  /\ selectedWeek = 0
  /\ columns = noColumns
  /\ calls = <<>>
  /\ nDrops = 0
  /\ anyFailed = FALSE
  /\ lastDrop = noDrop
  /\ uncaught = FALSE
  /\ deleted = {}
  /\ lastEvent = "render"
  /\ bData = noBoardInput /\ bNow = 0 /\ bBoards = <<>> /\ bPc = "idle"
  /\ bColumns = noColumns
  /\ bCode = <<>> /\ bColor = ""
  /\ bWeekStart = 0 /\ bWeekNumber = 1 /\ bSorted = <<>>
  /\ AppIdle

\* the effects of the first render: the mount effect calls refreshData, the
\* auto-select effect chooses a week, the board mounts
MountEffects ==
  /\ lastEvent = "render"
  /\ isRefreshing' = TRUE
  /\ calls' = <<fetchCall(noHistory, "mount", 0, "undefined")>>
  /\ Render(freshData, selectedWeek, selectedBoardType, FALSE)
  /\ lastEvent' = "mount"
  /\ UNCHANGED <<data, isUnified, serverStatus, nDrops, anyFailed, lastDrop, uncaught, deleted, boardVars, appVars>>

NextSelect == MountEffects

SpecSelect == InitSelect /\ [][NextSelect]_vars

\* ---------------------------------------------------------- course colours
\* a JavaScript number h is written [q, r] with h = q * 2^27 + r and
\* 0 <= r < 2^27, so that no intermediate value leaves the 32-bit integers
\* of the model checker; the low 27 bits of h are r, also for negative h
Two27 == 134217728
Two22 == 4194304
PaletteSize == 15

\* the colors array of generateCourseColor
colors ==
  << "#FF6B6B", "#4ECDC4", "#45B7D1", "#96CEB4", "#FFEAA7",
     "#DDA0DD", "#98D8C8", "#F7DC6F", "#BB8FCE", "#85C1E9",
     "#F8C471", "#82E0AA", "#F1948A", "#85C1E9", "#D7BDE2" >>

normalize(q, r) == [q |-> q + (r \div Two27), r |-> r % Two27]

\* hash << 5: ToInt32(hash), shifted left by 5 within 32 bits, as a signed value
shl5(h) ==
  LET top == h.r \div Two22
  IN [q |-> IF top >= 16 THEN top - 32 ELSE top, r |-> (h.r % Two22) * 32]

\* hash = courseCode.charCodeAt(i) + ((hash << 5) - hash)
hashStep(h, c) ==
  LET s == shl5(h)
  IN normalize(s.q - h.q, c + s.r - h.r)

RECURSIVE hashFrom(_, _)
hashFrom(h, code) ==
  IF code = <<>> THEN h ELSE hashFrom(hashStep(h, Head(code)), Tail(code))

hashOf(courseCode) == hashFrom([q |-> 0, r |-> 0], courseCode)

\* Math.abs(hash) % n
absRem(h, n) ==
  IF h.q >= 0
  THEN (h.q * (Two27 % n) + h.r) % n
  ELSE ((0 - h.q) * (Two27 % n) + n - (h.r % n)) % n

\* hash % n: the remainder takes the sign of hash
jsRem(h, n) == IF h.q >= 0 THEN absRem(h, n) ELSE 0 - absRem(h, n)

\* colors[index]: undefined outside 0 .. colors.length - 1
colorAt(index) ==
  IF index >= 0 /\ index < Len(colors) THEN colors[index + 1] ELSE "undefined"

\* an index taken without Math.abs
generateCourseColor_noAbs(courseCode) == colorAt(jsRem(hashOf(courseCode), Len(colors)))

generateCourseColor(courseCode) == colorAt(absRem(hashOf(courseCode), Len(colors)))

\* code units: '0', 'Z' and the largest one
CharCodes == {48, 90, 65535}

CourseCodes == UNION {[1..n -> CharCodes] : n \in 0..MaxCodeLen}

InitColour ==
  /\ Mounted("single", FALSE)
  /\ bData = noBoardInput /\ bNow = 0 /\ bBoards = <<>> /\ bPc = "input"
  /\ bColumns = noColumns
  /\ bCode \in CourseCodes /\ bColor = ""
  /\ bWeekStart = 0 /\ bWeekNumber = 1 /\ bSorted = <<>>
  /\ AppIdle

\* the courseColors memo asks for the colour of a course code, and asks
\* again each time the memo is recomputed
ComputeColour ==
  /\ bPc \in {"input", "colour"}
  /\ bColor' = generateCourseColor(bCode)
  /\ bPc' = "colour"
  /\ UNCHANGED <<bData, bNow, bBoards, bColumns, bCode, bWeekStart, bWeekNumber, bSorted, kanbanVars, appVars>>

NextColour == ComputeColour

SpecColour == InitColour /\ [][NextColour]_vars

\* ---------------------------------- the column effect on arbitrary boards
\* the statuses a record can carry; "undefined" is a record without the field
StatusValues == {"NOT_STARTED", "IN_PROGRESS", "DONE", "undefined"}

\* due days by position: a Monday, the Sunday before it, a Monday two weeks on
columnDue(i) == CASE i = 1 -> 11 [] i = 2 -> 10 [] OTHER -> 25

ColumnInputs ==
  UNION {
    { [isArray |-> FALSE,
       syllabi |-> <<[id |-> 1,
                      assignments |-> [i \in 1..k |->
                         [id |-> i, due_date |-> columnDue(i), due_time |-> "12:00 AM",
                          status |-> st[i]]]]>>]
      : st \in [1..k -> StatusValues] }
    : k \in 0..MaxItems }

InitColumns ==
  /\ Mounted("single", FALSE)
  /\ bData \in ColumnInputs
  /\ bNow = 0
  /\ bBoards = <<>>
  /\ bPc = "input"
  /\ bColumns = noColumns
  /\ bCode = <<>> /\ bColor = ""
  /\ bWeekStart = 0 /\ bWeekNumber = 1 /\ bSorted = <<>>
  /\ AppIdle

\* WeeklyBoard mounts with one of the weekly boards and its column effect runs
MountWeeklyBoard ==
  /\ bPc = "input"
  /\ \E w \in 1..Len(weeklyBoardsOf(bData, bNow)) :
       /\ bBoards' = <<weeklyBoardsOf(bData, bNow)[w]>>
       /\ bColumns' = deriveColumns(weeklyBoardsOf(bData, bNow)[w].assignments)
  /\ bPc' = "columns"
  /\ UNCHANGED <<bData, bNow, bCode, bColor, bWeekStart, bWeekNumber, bSorted, kanbanVars, appVars>>

\* AllAssignmentsBoard mounts and its column effect runs
MountAllAssignmentsBoard ==
  /\ bPc = "input"
  /\ bBoards' = <<allAssignmentsBoardOf(bData, bNow)>>
  /\ bColumns' = deriveColumns(allAssignmentsBoardOf(bData, bNow).assignments)
  /\ bPc' = "columns"
  /\ UNCHANGED <<bData, bNow, bCode, bColor, bWeekStart, bWeekNumber, bSorted, kanbanVars, appVars>>

NextColumns == MountWeeklyBoard \/ MountAllAssignmentsBoard

SpecColumns == InitColumns /\ [][NextColumns]_vars

\* ------------------------------ AssignmentEditor: the unsaved-changes guard
\* the content of the editor's fields is a version number: MaxVersion + 1
\* contents are told apart, at most MaxActions actions are requested and
\* Save is clicked at most MaxSaves times
Versions == 0..MaxVersion

\* the editor mounted by App for a syllabus opened with Edit, or for an
\* analysis result whose database response carried no syllabus_id
\* (syllabusId || undefined); its effects have run
InitEditor ==
  /\ Mounted("single", FALSE)
  /\ bData = noBoardInput /\ bNow = 0 /\ bBoards = <<>> /\ bPc = "idle"
  /\ bColumns = noColumns
  /\ bCode = <<>> /\ bColor = ""
  /\ bWeekStart = 0 /\ bWeekNumber = 1 /\ bSorted = <<>>
  /\ syllabusId \in {0, 1}
  /\ assignmentData = [isNull |-> FALSE, id |-> syllabusId, version |-> 0]
  /\ view = "editor"
  /\ savedSyllabi = <<>> /\ isLoadingSyllabi = FALSE
  /\ isDragOver = FALSE /\ error = "null"
  /\ uploadedFile = 0 /\ isUploaded = FALSE /\ isAnalyzing = FALSE
  /\ deleteModalOpen = FALSE /\ syllabusToDelete = noSyllabus
  /\ serverSyllabi = {} /\ requests = <<>>
  /\ nFiles = 0 /\ droppedWhileOpen = {}
  /\ editorAssignments = 0 /\ hasUnsavedChanges = FALSE /\ isSaving = FALSE
  /\ showConfirmModal = FALSE /\ pendingAction = noAction
  /\ originalDataRef = 0 /\ saves = <<>> /\ timers = <<>>
  /\ nActions = 0 /\ executed = [n \in 1..MaxActions |-> 0] /\ cancelled = {}
  /\ nAlerts = 0 /\ nDataChange = 0
  /\ ExportIdle

editorRest == <<kanbanVars, boardVars, exportVars, syllabusId, savedSyllabi, isLoadingSyllabi,
                isDragOver, error, uploadedFile, isUploaded, isAnalyzing, deleteModalOpen,
                syllabusToDelete, serverSyllabi, requests, nFiles, droppedWhileOpen>>

\* the action runs: onViewKanban() is App.handleViewKanban, which shows the
\* board in place of the editor; exportToCalendarCSV() downloads the file
runAction(a) ==
  /\ executed' = [executed EXCEPT ![a.n] = @ + 1]
  /\ view' = IF a.kind = "viewKanban" THEN "kanban" ELSE view

\* a field is edited (handleAssignmentChange, handleCourseNameChange, ...)
\* and the change effect compares the fields with originalDataRef.current
EditField(v) ==
  /\ view = "editor" /\ ~showConfirmModal
  /\ v # editorAssignments
  /\ editorAssignments' = v
  /\ hasUnsavedChanges' = (v # originalDataRef)
  /\ UNCHANGED <<assignmentData, view, isSaving, showConfirmModal, pendingAction, originalDataRef,
                 saves, timers, nActions, executed, cancelled, nAlerts, nDataChange, editorRest>>

\* handleViewKanbanBoard, handleExportToCalendarCSV: the buttons of the
\* editor, through handleActionWithConfirmation
handleActionWithConfirmation(kind) ==
  /\ view = "editor" /\ ~showConfirmModal
  /\ nActions < MaxActions
  /\ nActions' = nActions + 1
  /\ LET action == [isNull |-> FALSE, kind |-> kind, n |-> nActions + 1]
     IN IF hasUnsavedChanges
        THEN /\ pendingAction' = action
             /\ showConfirmModal' = TRUE
             /\ UNCHANGED <<executed, view>>
        ELSE /\ runAction(action)
             /\ UNCHANGED <<pendingAction, showConfirmModal>>
  /\ UNCHANGED <<assignmentData, editorAssignments, hasUnsavedChanges, isSaving, originalDataRef,
                 saves, timers, cancelled, nAlerts, nDataChange, editorRest>>

\* Continue Without Saving: the modal's confirm button, never disabled
handleConfirmAction ==
  /\ view = "editor" /\ showConfirmModal
  /\ IF pendingAction.isNull THEN UNCHANGED <<executed, view>> ELSE runAction(pendingAction)
  /\ showConfirmModal' = FALSE
  /\ pendingAction' = noAction
  /\ UNCHANGED <<assignmentData, editorAssignments, hasUnsavedChanges, isSaving, originalDataRef,
                 saves, timers, nActions, cancelled, nAlerts, nDataChange, editorRest>>

\* Cancel: the modal's cancel button, never disabled
handleCancelAction ==
  /\ view = "editor" /\ showConfirmModal
  /\ showConfirmModal' = FALSE
  /\ pendingAction' = noAction
  /\ cancelled' = IF pendingAction.isNull THEN cancelled ELSE cancelled \cup {pendingAction.n}
  /\ UNCHANGED <<assignmentData, view, editorAssignments, hasUnsavedChanges, isSaving,
                 originalDataRef, saves, timers, nActions, executed, nAlerts, nDataChange,
                 editorRest>>

\* Save Changes: the modal's save button, disabled while isSaving; handleSave
\* up to its await. The call keeps the showConfirmModal and pendingAction of
\* the render whose handler was clicked
handleSave ==
  /\ view = "editor" /\ showConfirmModal /\ ~isSaving
  /\ Len(saves) < MaxSaves /\ nAlerts < MaxSaves
  /\ IF syllabusId = 0
     THEN /\ nAlerts' = nAlerts + 1
          /\ UNCHANGED <<isSaving, saves>>
     ELSE /\ isSaving' = TRUE
          /\ saves' = Append(saves, [state |-> "sent", showConfirmModal |-> showConfirmModal,
                                     pendingAction |-> pendingAction,
                                     updatedData |-> editorAssignments])
          /\ UNCHANGED nAlerts
  /\ UNCHANGED <<assignmentData, view, editorAssignments, hasUnsavedChanges, showConfirmModal,
                 pendingAction, originalDataRef, timers, nActions, executed, cancelled,
                 nDataChange, editorRest>>

\* updateSyllabus resolved: the rest of handleSave's try block and its
\* finally; onDataChange is App.handleDataChange, whose new data prop runs
\* the editor's data effect (assignments and originalDataRef from the prop)
SaveResolves(i) ==
  /\ saves[i].state = "sent"
  /\ saves' = [saves EXCEPT ![i].state = "done"]
  /\ originalDataRef' = saves[i].updatedData
  /\ hasUnsavedChanges' = FALSE
  /\ assignmentData' = [assignmentData EXCEPT !.version = saves[i].updatedData]
  /\ nDataChange' = nDataChange + 1
  /\ editorAssignments' = saves[i].updatedData
  /\ IF saves[i].showConfirmModal
     THEN /\ showConfirmModal' = FALSE
          /\ pendingAction' = noAction
          /\ timers' = IF saves[i].pendingAction.isNull THEN timers
                       ELSE Append(timers, saves[i].pendingAction)
     ELSE UNCHANGED <<showConfirmModal, pendingAction, timers>>
  /\ isSaving' = FALSE
  /\ UNCHANGED <<view, nActions, executed, cancelled, nAlerts, editorRest>>

\* a problem variant: a failed save is treated as saved
SaveRejects_saved(i) ==
  /\ saves[i].state = "sent"
  /\ saves' = [saves EXCEPT ![i].state = "failed"]
  /\ nAlerts' = nAlerts + 1
  /\ isSaving' = FALSE
  /\ hasUnsavedChanges' = FALSE
  /\ UNCHANGED <<assignmentData, view, editorAssignments, showConfirmModal,
                 pendingAction, originalDataRef, timers, nActions, executed, cancelled,
                 nDataChange, editorRest>>

\* updateSyllabus threw (a response that is not ok, or no response):
\* handleSave's catch alerts, its finally clears isSaving
SaveRejects(i) ==
  /\ saves[i].state = "sent"
  /\ saves' = [saves EXCEPT ![i].state = "failed"]
  /\ nAlerts' = nAlerts + 1
  /\ isSaving' = FALSE
  /\ UNCHANGED <<assignmentData, view, editorAssignments, hasUnsavedChanges, showConfirmModal,
                 pendingAction, originalDataRef, timers, nActions, executed, cancelled,
                 nDataChange, editorRest>>

\* setTimeout(() => actionToExecute(), 100) comes due
TimerFires ==
  /\ timers # <<>>
  /\ runAction(Head(timers))
  /\ timers' = Tail(timers)
  /\ UNCHANGED <<assignmentData, editorAssignments, hasUnsavedChanges, isSaving, showConfirmModal,
                 pendingAction, originalDataRef, saves, nActions, cancelled, nAlerts,
                 nDataChange, editorRest>>

NextEditor ==
  \/ \E v \in Versions : EditField(v)
  \/ \E kind \in {"viewKanban", "export"} : handleActionWithConfirmation(kind)
  \/ handleConfirmAction
  \/ handleCancelAction
  \/ handleSave
  \/ \E i \in 1..Len(saves) : SaveResolves(i)
  \/ \E i \in 1..Len(saves) : SaveRejects(i)
  \/ TimerFires

SpecEditor == InitEditor /\ [][NextEditor]_vars

\* ------------------------------------- AssignmentEditor: the calendar export
\* a due time "h:mm AM" or "h:mm PM" is held as its three parts; the export
\* is given every hour, a few minutes of the hour, and two due dates
DueMinutes == {0, 30, 59}

ExportInputs ==
  [due_date : {10, 31},
   due_time : [hours : 1..12, minutes : DueMinutes, period : {"AM", "PM"}]]

\* calculateEndTime: startTime.split(' '), time.split(':'), parseInt(hours),
\* the 24-hour value plus one modulo 24, and back to the 12-hour text
calculateEndTime(startTime) ==
  LET hours == startTime.hours
      period == startTime.period
      hour24 == IF period = "PM" /\ hours # 12 THEN hours + 12
                ELSE IF period = "AM" /\ hours = 12 THEN 0
                ELSE hours
      next24 == (hour24 + 1) % 24
      hour12 == IF next24 = 0 THEN 12
                ELSE IF next24 = 12 THEN 12
                ELSE IF next24 > 12 THEN next24 - 12
                ELSE next24
      newPeriod == IF next24 = 0 THEN "AM"
                   ELSE IF next24 >= 12 THEN "PM"
                   ELSE "AM"
  IN [hours |-> hour12, minutes |-> startTime.minutes, period |-> newPeriod]

\* one row of csvRows: start and end date are both the due date
csvRowOf(assignment) ==
  [startDate |-> assignment.due_date,
   startTime |-> assignment.due_time,
   endDate |-> assignment.due_date,
   endTime |-> calculateEndTime(assignment.due_time)]

InitExport ==
  /\ Mounted("single", FALSE)
  /\ bData = noBoardInput /\ bNow = 0 /\ bBoards = <<>> /\ bPc = "idle"
  /\ bColumns = noColumns
  /\ bCode = <<>> /\ bColor = ""
  /\ bWeekStart = 0 /\ bWeekNumber = 1 /\ bSorted = <<>>
  /\ PageIdle /\ EditorIdle
  /\ csvAssignment \in ExportInputs
  /\ csvRow = <<>>

\* exportToCalendarCSV builds the row of the assignment
exportToCalendarCSV ==
  /\ csvRow' = csvRowOf(csvAssignment)
  /\ UNCHANGED <<csvAssignment, kanbanVars, boardVars, pageVars, editorVars>>

NextExport == exportToCalendarCSV

SpecExport == InitExport /\ [][NextExport]_vars

\* ----------------------------------------- App: saved list, upload, delete
\* the backend stores syllabus 1 and a record whose id is missing (0);
\* analyze-and-save stores a syllabus under the next id
StoredAtStart == {0, 1}
MaxId == 1 + MaxRequests

\* response.data of GET /syllabi: the stored syllabi in the order of their ids
listOf(ids) == SelectSeq([k \in 1..MaxId + 1 |-> k - 1], LAMBDA id : id \in ids)

seqIds(list) == {list[k] : k \in 1..Len(list)}

request(op, arg) == [op |-> op, arg |-> arg, state |-> "sent", result |-> "", data |-> {}]

\* what the page shows: the conditions of App's JSX; the delete modal and
\* the analysing overlay lie over the page
mainScreen == assignmentData.isNull /\ ~isUploaded
uploadScreen == isUploaded /\ assignmentData.isNull
editorScreen == ~assignmentData.isNull /\ view = "editor"
kanbanScreen == ~assignmentData.isNull /\ view = "kanban"
pageClickable == ~deleteModalOpen /\ ~isAnalyzing
listShown == mainScreen /\ savedSyllabi # <<>> /\ ~isLoadingSyllabi /\ pageClickable

\* App after its first render: the mount effect has called fetchSyllabi
InitPage ==
  /\ Mounted("single", FALSE)
  /\ bData = noBoardInput /\ bNow = 0 /\ bBoards = <<>> /\ bPc = "idle"
  /\ bColumns = noColumns
  /\ bCode = <<>> /\ bColor = ""
  /\ bWeekStart = 0 /\ bWeekNumber = 1 /\ bSorted = <<>>
  /\ assignmentData = noData /\ syllabusId = 0 /\ view = "editor"
  /\ savedSyllabi = <<>> /\ isLoadingSyllabi = TRUE
  /\ isDragOver = FALSE /\ error = "null"
  /\ uploadedFile = 0 /\ isUploaded = FALSE /\ isAnalyzing = FALSE
  /\ deleteModalOpen = FALSE /\ syllabusToDelete = noSyllabus
  /\ serverSyllabi = StoredAtStart
  /\ requests = <<request("fetch", 0)>>
  /\ nFiles = 0 /\ droppedWhileOpen = {}
  /\ EditorIdle /\ ExportIdle

pageRest == <<kanbanVars, boardVars, editorVars, exportVars>>

\* GET /syllabi answered by the backend, or not
ServerList(i) ==
  /\ requests[i].op = "fetch" /\ requests[i].state = "sent"
  /\ \E ok \in BOOLEAN :
       requests' = [requests EXCEPT ![i].state = "answered",
                                    ![i].result = IF ok THEN "success" ELSE "throw",
                                    ![i].data = IF ok THEN serverSyllabi ELSE {}]
  /\ UNCHANGED <<assignmentData, syllabusId, view, savedSyllabi, isLoadingSyllabi, isDragOver,
                 error, uploadedFile, isUploaded, isAnalyzing, deleteModalOpen, syllabusToDelete,
                 serverSyllabi, nFiles, droppedWhileOpen, pageRest>>

\* DELETE /syllabi/{id}: the backend removes the syllabus and answers
\* success, or keeps it and answers success false or an error status
ServerDelete(i) ==
  /\ requests[i].op = "delete" /\ requests[i].state = "sent"
  /\ \E result \in {"success", "failure", "throw"} :
       /\ result = "success" => requests[i].arg \in serverSyllabi
       /\ requests' = [requests EXCEPT ![i].state = "answered", ![i].result = result]
       /\ serverSyllabi' = IF result = "success" THEN serverSyllabi \ {requests[i].arg}
                           ELSE serverSyllabi
  /\ UNCHANGED <<assignmentData, syllabusId, view, savedSyllabi, isLoadingSyllabi, isDragOver,
                 error, uploadedFile, isUploaded, isAnalyzing, deleteModalOpen, syllabusToDelete,
                 nFiles, droppedWhileOpen, pageRest>>

\* POST /analyze-and-save: the backend analyses the file and stores the
\* syllabus under a new id, or fails
ServerAnalyze(i) ==
  /\ requests[i].op = "analyze" /\ requests[i].state = "sent"
  /\ \E result \in {"success", "failure", "throw"} :
       LET newId == 1 + Cardinality({k \in 1..Len(requests) :
                                       requests[k].op = "analyze" /\ requests[k].result = "success"})
                      + 1
       IN /\ requests' = [requests EXCEPT ![i].state = "answered", ![i].result = result,
                                          ![i].data = IF result = "success" THEN {newId} ELSE {}]
          /\ serverSyllabi' = IF result = "success" THEN serverSyllabi \cup {newId}
                              ELSE serverSyllabi
  /\ UNCHANGED <<assignmentData, syllabusId, view, savedSyllabi, isLoadingSyllabi, isDragOver,
                 error, uploadedFile, isUploaded, isAnalyzing, deleteModalOpen, syllabusToDelete,
                 nFiles, droppedWhileOpen, pageRest>>

\* fetchSyllabi after its await: the list on success, and the finally
fetchSyllabiSettles(i) ==
  /\ requests[i].op = "fetch" /\ requests[i].state = "answered"
  /\ requests' = [requests EXCEPT ![i].state = "done"]
  /\ savedSyllabi' = IF requests[i].result = "success" THEN listOf(requests[i].data)
                     ELSE savedSyllabi
  /\ isLoadingSyllabi' = FALSE
  /\ UNCHANGED <<assignmentData, syllabusId, view, isDragOver, error, uploadedFile, isUploaded,
                 isAnalyzing, deleteModalOpen, syllabusToDelete, serverSyllabi, nFiles,
                 droppedWhileOpen, pageRest>>

handleDragOver ==
  /\ ~isDragOver
  /\ isDragOver' = TRUE
  /\ UNCHANGED <<assignmentData, syllabusId, view, savedSyllabi, isLoadingSyllabi, error,
                 uploadedFile, isUploaded, isAnalyzing, deleteModalOpen, syllabusToDelete,
                 serverSyllabi, requests, nFiles, droppedWhileOpen, pageRest>>

handleDragLeave ==
  /\ isDragOver
  /\ isDragOver' = FALSE
  /\ UNCHANGED <<assignmentData, syllabusId, view, savedSyllabi, isLoadingSyllabi, error,
                 uploadedFile, isUploaded, isAnalyzing, deleteModalOpen, syllabusToDelete,
                 serverSyllabi, requests, nFiles, droppedWhileOpen, pageRest>>

\* handleFileUpload: a file whose name ends in .pdf is kept, another is refused
handleFileUpload(isPdf) ==
  /\ nFiles' = nFiles + 1
  /\ IF isPdf
     THEN /\ uploadedFile' = nFiles + 1
          /\ isUploaded' = TRUE
          /\ error' = "null"
          /\ droppedWhileOpen' = IF assignmentData.isNull THEN droppedWhileOpen
                                 ELSE droppedWhileOpen \cup {nFiles + 1}
     ELSE /\ error' = "Please upload a PDF file (.pdf)"
          /\ UNCHANGED <<uploadedFile, isUploaded, droppedWhileOpen>>
  /\ UNCHANGED assignmentData

\* a file dropped anywhere on the page, whatever the page shows
handleDrop(isPdf) ==
  /\ nFiles < MaxFiles
  /\ isDragOver' = FALSE
  /\ handleFileUpload(isPdf)
  /\ UNCHANGED <<syllabusId, view, savedSyllabi, isLoadingSyllabi, isAnalyzing,
                 deleteModalOpen, syllabusToDelete, serverSyllabi, requests, pageRest>>

\* a file chosen with the input of the main upload screen
handleFileInputChange(isPdf) ==
  /\ mainScreen /\ pageClickable
  /\ nFiles < MaxFiles
  /\ handleFileUpload(isPdf)
  /\ UNCHANGED <<syllabusId, view, savedSyllabi, isLoadingSyllabi, isDragOver, isAnalyzing,
                 deleteModalOpen, syllabusToDelete, serverSyllabi, requests, pageRest>>

\* Start AI Analysis, up to the await
handleAnalyzeFile ==
  /\ uploadScreen /\ pageClickable
  /\ Len(requests) < MaxRequests
  /\ IF uploadedFile = 0
     THEN UNCHANGED <<isAnalyzing, error, requests>>
     ELSE /\ isAnalyzing' = TRUE
          /\ error' = "null"
          /\ requests' = Append(requests, request("analyze", uploadedFile))
  /\ UNCHANGED <<assignmentData, syllabusId, view, savedSyllabi, isLoadingSyllabi, isDragOver,
                 uploadedFile, isUploaded, deleteModalOpen, syllabusToDelete, serverSyllabi,
                 nFiles, droppedWhileOpen, pageRest>>

\* handleAnalyzeFile after its await
analyzeSettles(i) ==
  /\ requests[i].op = "analyze" /\ requests[i].state = "answered"
  /\ requests' = [requests EXCEPT ![i].state = "done"]
  /\ IF requests[i].result = "success"
     THEN LET id == CHOOSE k \in requests[i].data : TRUE
          IN /\ assignmentData' = [isNull |-> FALSE, id |-> id, version |-> 0]
             /\ syllabusId' = id
             /\ isUploaded' = FALSE
             /\ uploadedFile' = 0
             /\ UNCHANGED error
     ELSE /\ error' = IF requests[i].result = "failure" THEN "Failed to analyze PDF"
                      ELSE "Error analyzing PDF"
          /\ UNCHANGED <<assignmentData, syllabusId, isUploaded, uploadedFile>>
  /\ isAnalyzing' = FALSE
  /\ UNCHANGED <<view, savedSyllabi, isLoadingSyllabi, isDragOver, deleteModalOpen,
                 syllabusToDelete, serverSyllabi, nFiles, droppedWhileOpen, pageRest>>

\* Upload Different File, on the upload screen and above the editor;
\* it ends with fetchSyllabi()
handleReset ==
  /\ (uploadScreen \/ editorScreen) /\ pageClickable
  /\ Len(requests) < MaxRequests
  /\ assignmentData' = noData
  /\ syllabusId' = 0
  /\ error' = "null"
  /\ view' = "editor"
  /\ uploadedFile' = 0
  /\ isUploaded' = FALSE
  /\ isAnalyzing' = FALSE
  /\ isLoadingSyllabi' = TRUE
  /\ requests' = Append(requests, request("fetch", 0))
  /\ UNCHANGED <<savedSyllabi, isDragOver, deleteModalOpen, syllabusToDelete, serverSyllabi,
                 nFiles, droppedWhileOpen, pageRest>>

\* Edit and View Kanban of a saved syllabus
openSyllabus(id, shown) ==
  /\ listShown /\ id \in seqIds(savedSyllabi)
  /\ assignmentData' = [isNull |-> FALSE, id |-> id, version |-> 0]
  /\ syllabusId' = id
  /\ view' = shown
  /\ UNCHANGED <<savedSyllabi, isLoadingSyllabi, isDragOver, error, uploadedFile, isUploaded,
                 isAnalyzing, deleteModalOpen, syllabusToDelete, serverSyllabi, requests,
                 nFiles, droppedWhileOpen, pageRest>>

handleEditSyllabus(id) == openSyllabus(id, "editor")

handleViewSyllabusKanban(id) == openSyllabus(id, "kanban")

\* View on Kanban Board in the editor (onViewKanban), Back in the board
switchView ==
  /\ ~assignmentData.isNull /\ pageClickable
  /\ view' = IF view = "editor" THEN "kanban" ELSE "editor"
  /\ UNCHANGED <<assignmentData, syllabusId, savedSyllabi, isLoadingSyllabi, isDragOver, error,
                 uploadedFile, isUploaded, isAnalyzing, deleteModalOpen, syllabusToDelete,
                 serverSyllabi, requests, nFiles, droppedWhileOpen, pageRest>>

\* the x of a saved syllabus
handleDeleteClick(id) ==
  /\ listShown /\ id \in seqIds(savedSyllabi)
  /\ syllabusToDelete' = [isNull |-> FALSE, id |-> id]
  /\ deleteModalOpen' = TRUE
  /\ UNCHANGED <<assignmentData, syllabusId, view, savedSyllabi, isLoadingSyllabi, isDragOver,
                 error, uploadedFile, isUploaded, isAnalyzing, serverSyllabi, requests,
                 nFiles, droppedWhileOpen, pageRest>>

\* Delete in the modal, up to the await; the button is never disabled
handleDeleteConfirm ==
  /\ deleteModalOpen
  /\ Len(requests) < MaxRequests
  /\ IF syllabusToDelete.isNull
     THEN UNCHANGED <<error, deleteModalOpen, syllabusToDelete, requests>>
     ELSE IF syllabusToDelete.id = 0
     THEN /\ error' = "Cannot delete syllabus: No ID found"
          /\ deleteModalOpen' = FALSE
          /\ syllabusToDelete' = noSyllabus
          /\ UNCHANGED requests
     ELSE /\ requests' = Append(requests, request("delete", syllabusToDelete.id))
          /\ UNCHANGED <<error, deleteModalOpen, syllabusToDelete>>
  /\ UNCHANGED <<assignmentData, syllabusId, view, savedSyllabi, isLoadingSyllabi, isDragOver,
                 uploadedFile, isUploaded, isAnalyzing, serverSyllabi, nFiles, droppedWhileOpen,
                 pageRest>>

\* handleDeleteConfirm after its await: the syllabus of the call is
\* filtered out on success; success false and a throw set the error
deleteSettles(i) ==
  /\ requests[i].op = "delete" /\ requests[i].state = "answered"
  /\ requests' = [requests EXCEPT ![i].state = "done"]
  /\ IF requests[i].result = "success"
     THEN /\ savedSyllabi' = SelectSeq(savedSyllabi, LAMBDA id : id # requests[i].arg)
          /\ deleteModalOpen' = FALSE
          /\ syllabusToDelete' = noSyllabus
          /\ UNCHANGED error
     ELSE /\ error' = IF requests[i].result = "failure" THEN "Failed to delete syllabus"
                      ELSE "Error deleting syllabus"
          /\ UNCHANGED <<savedSyllabi, deleteModalOpen, syllabusToDelete>>
  /\ UNCHANGED <<assignmentData, syllabusId, view, isLoadingSyllabi, isDragOver, uploadedFile,
                 isUploaded, isAnalyzing, serverSyllabi, nFiles, droppedWhileOpen, pageRest>>

\* Cancel in the modal
handleDeleteCancel ==
  /\ deleteModalOpen
  /\ deleteModalOpen' = FALSE
  /\ syllabusToDelete' = noSyllabus
  /\ UNCHANGED <<assignmentData, syllabusId, view, savedSyllabi, isLoadingSyllabi, isDragOver,
                 error, uploadedFile, isUploaded, isAnalyzing, serverSyllabi, requests,
                 nFiles, droppedWhileOpen, pageRest>>

NextPage ==
  \/ \E i \in 1..Len(requests) : ServerList(i)
  \/ \E i \in 1..Len(requests) : ServerDelete(i)
  \/ \E i \in 1..Len(requests) : ServerAnalyze(i)
  \/ \E i \in 1..Len(requests) : fetchSyllabiSettles(i)
  \/ \E i \in 1..Len(requests) : analyzeSettles(i)
  \/ \E i \in 1..Len(requests) : deleteSettles(i)
  \/ handleDragOver
  \/ handleDragLeave
  \/ \E isPdf \in BOOLEAN : handleDrop(isPdf)
  \/ \E isPdf \in BOOLEAN : handleFileInputChange(isPdf)
  \/ handleAnalyzeFile
  \/ handleReset
  \/ \E id \in 0..MaxId : handleEditSyllabus(id)
  \/ \E id \in 0..MaxId : handleViewSyllabusKanban(id)
  \/ switchView
  \/ \E id \in 0..MaxId : handleDeleteClick(id)
  \/ handleDeleteConfirm
  \/ handleDeleteCancel

SpecPage == InitPage /\ [][NextPage]_vars

\* ------------------------------------------------------------------ claims
RECURSIVE totalAssignments(_)
totalAssignments(boards) ==
  IF boards = <<>> THEN 0
  ELSE Len(Head(boards).assignments) + totalAssignments(Tail(boards))

\* the places (board, position) at which the boards hold assignment id
placesOf(boards, id) ==
  {<<b, j>> \in (1..Len(boards)) \X (1..MaxItems + 1) :
     j <= Len(boards[b].assignments) /\ boards[b].assignments[j].id = id}

bInput == allAssignmentsOf(bData)

\* C1: weekly bucketing partitions its input: every assignment of a
\* non-empty input is in exactly one board, once, and nothing else is in a
\* board, so the boards' assignment counts add up to the input count
C1_Partition ==
  (bPc = "done" /\ Len(bInput) > 0) =>
    /\ \A i \in 1..Len(bInput) : Cardinality(placesOf(bBoards, bInput[i].id)) = 1
    /\ totalAssignments(bBoards) = Len(bInput)

\* three assignments, one of them without a parsable due time, end up in
\* two boards
C1_Witness ==
  /\ bPc = "done" /\ Len(bInput) = 3 /\ Len(bBoards) = 2
  /\ \E i \in 1..3 : bInput[i].due_time = ""
  /\ totalAssignments(bBoards) = 3


\* ---- the write-then-refetch protocol
fetchesForDrops(cs) ==
  Cardinality({i \in 1..Len(cs) : cs[i].op = "fetch" /\ cs[i].k # "mount"})

statusOfIn(syllabi, id) ==
  LET all == flatMap(syllabi)
  IN IF \E i \in 1..Len(all) : all[i].id = id
     THEN all[CHOOSE i \in 1..Len(all) : all[i].id = id].status
     ELSE "absent"

columnOfStatus(status) ==
  CASE status = "NOT_STARTED" -> "not-started"
    [] status = "IN_PROGRESS" -> "in-progress"
    [] status = "DONE" -> "done"
    [] OTHER -> "none"

\* C2: in every reachable state the displayed columns are the derivation
\* from the working copy: each column holds exactly the shown board's
\* assignments whose status maps to it
C2_ColumnsAreDerived == columns = deriveColumns(shownAssignments)

\* C3: every status update in flight carries the status of the column the
\* card was dropped on; a refetch for a drop is in flight only when the
\* drop has had a successful status update for each refetch issued; a
\* refetch for a drop is issued only by the step in which its status update
\* succeeds; and a successful refetch makes the working copy hold the
\* statuses of its response
C3_InFlight ==
  \A i \in 1..Len(calls) :
    /\ calls[i].op = "update" =>
         \/ calls[i].target = "not-started" /\ calls[i].status = "NOT_STARTED"
         \/ calls[i].target = "in-progress" /\ calls[i].status = "IN_PROGRESS"
         \/ calls[i].target = "done" /\ calls[i].status = "DONE"
    /\ (calls[i].op = "fetch" /\ calls[i].k # "mount") =>
         (calls[i].updOk >= 1 /\ calls[i].fet <= calls[i].updOk)

C3_Step ==
  /\ fetchesForDrops(calls') > fetchesForDrops(calls) => lastEvent' = "updateOk"
  /\ lastEvent' = "fetchOk" =>
       \E i \in 1..Len(calls) :
         /\ calls[i].op = "fetch" /\ calls[i].phase = "served"
         /\ freshData'.src = "fresh"
         /\ \A a \in AssignmentIds :
              statusOfIn(freshData'.val.syllabi, a) \in {"absent", statusOfIn(calls[i].snap, a)}

C3_UpdateThenRefetch == []C3_InFlight /\ [][C3_Step]_vars

\* a drop has been carried out: its update and its refetch have succeeded,
\* nothing is in flight, and the card is shown in the done column
C3_Witness ==
  /\ lastEvent = "fetchOk" /\ nDrops = 1 /\ calls = <<>> /\ ~anyFailed
  /\ \E a \in AssignmentIds :
       serverStatus[a] = "DONE" /\ displayedColumnOf(columns, a) = "done"

\* C4: the step in which a status update fails changes neither the working
\* copy nor the columns nor the selection, and takes the failed update out
\* of the requests in flight without issuing a refetch or another update
C4_Step ==
  lastEvent' = "updateFail" =>
    /\ freshData' = freshData /\ columns' = columns /\ isRefreshing' = isRefreshing
    /\ selectedWeek' = selectedWeek /\ selectedBoardType' = selectedBoardType
    /\ \E i \in 1..Len(calls) : calls[i].op = "update" /\ calls' = without(calls, i)

C4_FailedUpdateChangesNothing == [][C4_Step]_vars

\* a status update has failed after the service applied it: nothing is in
\* flight and the card is still shown where it was
C4_Witness ==
  /\ lastEvent = "updateFail" /\ calls = <<>>
  /\ \E a \in AssignmentIds :
       serverStatus[a] = "DONE" /\ displayedColumnOf(columns, a) = "not-started"

\* C5: the step in which a refetch fails leaves the working copy as it was
C5_Step == lastEvent' = "fetchFail" => currentDataOf(freshData', data') = currentData

C5_FailedRefetchKeepsData == [][C5_Step]_vars

\* C6: a card changes its column only in a step in which a refetch succeeds
C6_Step ==
  (\E a \in AssignmentIds :
     /\ displayedColumnOf(columns, a) # "none"
     /\ displayedColumnOf(columns', a) # "none"
     /\ displayedColumnOf(columns', a) # displayedColumnOf(columns, a))
  => lastEvent' = "fetchOk"

C6_OnlyRefetchMoves == [][C6_Step]_vars

\* C7: when nothing is in flight and no request has failed, every displayed
\* card is in the column of the status the persistence service holds
C7_NoDivergence ==
  (calls = <<>> /\ ~anyFailed) =>
    \A a \in AssignmentIds :
      displayedColumnOf(columns, a) \in {"none", columnOfStatus(serverStatus[a])}

\* C8: when the refetch of a drop from not-started onto done succeeds, and
\* nothing else has been in flight since the drop, the working copy holds
\* the assignment as DONE and the card is shown in the done column (and, the
\* columns being disjoint, in no other) wherever its board is shown
C8_Step ==
  (/\ lastEvent' = "fetchOk" /\ calls' = <<>> /\ Len(calls) = 1
   /\ calls[1].k # "mount" /\ calls[1].alone
   /\ calls[1].from = "not-started" /\ calls[1].target = "done")
  => /\ statusOfIn(currentDataOf(freshData', data').syllabi, calls[1].aid) = "DONE"
     /\ displayedColumnOf(columns', calls[1].aid) \in {"none", "done"}

C8_DropLandsInDone == [][C8_Step]_vars

\* C9: a drag that ends off the three columns changes nothing
C9_Step ==
  lastEvent' = "dragOff" =>
    UNCHANGED <<data, isUnified, serverStatus, freshData, isRefreshing, selectedWeek,
                selectedBoardType, columns, calls, nDrops, anyFailed>>

C9_OffTargetIsNoOp == [][C9_Step]_vars

\* a drag has ended off the columns while a request was in flight
C9_Witness == lastEvent = "dragOff" /\ nDrops = 1 /\ calls # <<>>

\* C10: after a failed status update or refetch the view shows a failure
\* message
C10_FailureIsShown ==
  lastEvent \in {"updateFail", "fetchFail"} => "error" \in visibleMessages


\* ---- column derivation
\* the positions of assignment id in a sequence of ids
positionsIn(ids, id) == {i \in 1..Len(ids) : ids[i] = id}

bBoard == bBoards[1].assignments

\* C11: on a board whose assignments all carry NOT_STARTED, IN_PROGRESS or
\* DONE, every assignment is in the column its status maps to, once, and in
\* no other column, no column holds anything else, and each column lists its
\* assignments in the order in which the board holds them
C11_ColumnsPartition ==
  (bPc = "columns" /\ \A i \in 1..Len(bBoard) :
                        bBoard[i].status \in {"NOT_STARTED", "IN_PROGRESS", "DONE"}) =>
    /\ \A i \in 1..Len(bBoard) : \A c \in {"not-started", "in-progress", "done"} :
         Cardinality(positionsIn(bColumns[c], bBoard[i].id)) =
           (IF c = columnOfStatus(bBoard[i].status) THEN 1 ELSE 0)
    /\ Len(bColumns["not-started"]) + Len(bColumns["in-progress"]) + Len(bColumns["done"])
         = Len(bBoard)
    /\ \A c \in {"not-started", "in-progress", "done"} :
         \A p, q \in 1..Len(bColumns[c]) :
           p < q => \E i, j \in 1..Len(bBoard) :
                      i < j /\ bBoard[i].id = bColumns[c][p] /\ bBoard[j].id = bColumns[c][q]

\* the board {1: DONE, 2: NOT_STARTED, 3: IN_PROGRESS} of the all-assignments
\* view gives not-started [2], in-progress [3], done [1]
C11_Witness ==
  /\ bPc = "columns" /\ Len(bBoard) = 3
  /\ idsOf(bBoard) = <<1, 2, 3>>
  /\ bBoard[1].status = "DONE" /\ bBoard[2].status = "NOT_STARTED"
  /\ bBoard[3].status = "IN_PROGRESS"
  /\ bColumns = [c \in validColumns |->
                   CASE c = "not-started" -> <<2>> [] c = "in-progress" -> <<3>>
                     [] OTHER -> <<1>>]


\* ---- weekly bucketing
\* the input assignment at position i has no date or no time that parses
unparsable(i) == bInput[i].due_date = 0 - 1 \/ bInput[i].due_time = ""

\* C12: once the boards are derived, every assignment whose due date or due
\* time does not parse is in exactly one board, once, carries the current
\* time as its due instant there, and that board's week holds the current time
C12_FallbackKeepsItem ==
  bPc = "done" =>
    \A i \in 1..Len(bInput) :
      unparsable(i) =>
        /\ Cardinality(placesOf(bBoards, bInput[i].id)) = 1
        /\ \A pl \in placesOf(bBoards, bInput[i].id) :
             /\ bBoards[pl[1]].assignments[pl[2]].dueDateTime = bNow
             /\ bBoards[pl[1]].startDate <= bNow /\ bNow <= bBoards[pl[1]].endDate

\* an assignment with a well-formed date but an empty due time sits, with
\* the current time, in another board than the one its date alone would
\* give, next to a board of parsable assignments
C12_Witness ==
  /\ bPc = "done" /\ Len(bBoards) = 2
  /\ \E i \in 1..Len(bInput) :
       /\ bInput[i].due_date = 10 /\ bInput[i].due_time = ""
       /\ \E pl \in placesOf(bBoards, bInput[i].id) :
            ~(bBoards[pl[1]].startDate <= 10 * DayTicks /\ 10 * DayTicks <= bBoards[pl[1]].endDate)
  /\ \E j \in 1..Len(bInput) : ~unparsable(j)


\* C13: the derived boards are in strictly increasing week-number order and
\* each board's week ends strictly before the next board's week starts
C13_BoardsOrdered ==
  bPc = "done" =>
    \A k \in 1..Len(bBoards) :
      /\ bBoards[k].startDate <= bBoards[k].endDate
      /\ k < Len(bBoards) =>
           /\ bBoards[k].weekNumber < bBoards[k + 1].weekNumber
           /\ bBoards[k].endDate < bBoards[k + 1].startDate

\* assignments due on the Sunday and on the Monday after it are in two
\* boards whose weeks follow one another
C13_Witness ==
  /\ bPc = "done" /\ Len(bBoards) = 2
  /\ \E i, j \in 1..Len(bInput) :
       /\ bInput[i].due_date = 10 /\ ~unparsable(i)
       /\ bInput[j].due_date = 11 /\ ~unparsable(j)
  /\ bBoards[1].endDate + 1 = bBoards[2].startDate

\* C14: every derived board holds at least one assignment and the k-th
\* board carries week number k
C14_NoEmptyBoardNoGap ==
  bPc = "done" =>
    \A k \in 1..Len(bBoards) :
      Len(bBoards[k].assignments) >= 1 /\ bBoards[k].weekNumber = k

\* assignments in two weeks with an empty week between them give exactly
\* two boards, numbered 1 and 2, two weeks apart
C14_Witness ==
  /\ bPc = "done" /\ Len(bInput) = 3 /\ \A i \in 1..3 : ~unparsable(i)
  /\ Len(bBoards) = 2
  /\ bBoards[1].weekNumber = 1 /\ bBoards[2].weekNumber = 2
  /\ bBoards[2].startDate = bBoards[1].startDate + 2 * WeekDays * DayTicks
  /\ Len(bBoards[1].assignments) + Len(bBoards[2].assignments) = 3

\* C15: an empty collection of assignments gives no board at all
C15_EmptyGivesNoBoard == (bPc = "done" /\ Len(bInput) = 0) => bBoards = <<>>

\* the derivation has run on a syllabus without assignments
C15_Witness == bPc = "done" /\ Len(bInput) = 0 /\ Len(bBoards) = 0


\* ---- selection
\* the week numbers of the boards whose week holds today
weeksHoldingToday ==
  {weeklyBoards[i].weekNumber : i \in {j \in 1..Len(weeklyBoards) :
      weeklyBoards[j].startDate <= Today /\ Today <= weeklyBoards[j].endDate}}

\* C16: after the effects of the first render, when there is a weekly board,
\* the selected week is the board whose week holds the current time if there
\* is one, and the first board otherwise
C16_AutoSelectOnLoad ==
  (lastEvent = "mount" /\ Len(weeklyBoards) > 0 /\ selectedBoardType = "weekly") =>
    /\ weeksHoldingToday # {} => selectedWeek \in weeksHoldingToday
    /\ weeksHoldingToday = {} => selectedWeek = weeklyBoards[1].weekNumber

\* three boards, the second of them holding today, and it is the selected one
C16_Witness ==
  /\ lastEvent = "mount" /\ Len(weeklyBoards) = 3
  /\ weeksHoldingToday = {2} /\ selectedWeek = 2
  /\ columns["not-started"] # <<>>


\* C17: once a week is selected, the selected week changes only in a step
\* that is a click on a week button of the sidebar, and then to a week that
\* the sidebar lists
C17_Step ==
  (selectedWeek # 0 /\ selectedWeek' # selectedWeek) =>
    /\ lastEvent' = "select" /\ selectedBoardType' = "weekly"
    /\ \E i \in 1..Len(weeklyBoards) : weeklyBoards[i].weekNumber = selectedWeek'

C17_SelectionSticks == [][C17_Step]_vars

\* the user has chosen week 1 although week 2 holds today, and a refetch
\* that brought a new board list has completed since: week 1 is still selected
C17_Witness ==
  /\ lastEvent = "fetchOk" /\ freshData.src = "fresh"
  /\ selectedBoardType = "weekly" /\ selectedWeek = 1
  /\ weeksHoldingToday = {2}


\* ---- deletion
\* the cards the mounted board shows
displayedIds(cols) == {a \in AssignmentIds : displayedColumnOf(cols, a) # "none"}

\* the columns without the card of assignment a
columnsWithout(cols, a) ==
  [c \in {"not-started", "in-progress", "done"} |->
     SelectSeq(cols[c], LAMBDA x : x # a)]

\* C18: a step in which the user declines a confirmation changes neither
\* the columns nor the working copy (and with it the boards) nor the
\* selection, and sends no request; and a card leaves the columns while
\* working copy and selection stay as they are only in a confirmed deletion
C18_Step ==
  /\ lastEvent' = "deleteDeclined" =>
       UNCHANGED <<data, isUnified, serverStatus, freshData, isRefreshing, selectedWeek,
                   selectedBoardType, columns, calls, nDrops, anyFailed>>
  /\ (/\ displayedIds(columns') # displayedIds(columns)
      /\ displayedIds(columns') \subseteq displayedIds(columns)
      /\ UNCHANGED <<data, freshData, selectedWeek, selectedBoardType>>)
     => lastEvent' = "delete"

C18_NoRemovalWithoutConfirm == [][C18_Step]_vars

\* the user has declined to delete a card of the weekly board, which is
\* still shown
C18_Witness ==
  /\ lastEvent = "deleteDeclined" /\ selectedBoardType = "weekly"
  /\ displayedIds(columns) # {}

\* C19: a step that is a confirmed deletion takes exactly one displayed
\* card out of the columns and leaves every other card in its column
C19_Step ==
  lastEvent' = "delete" =>
    \E a \in displayedIds(columns) : columns' = columnsWithout(columns, a)

C19_ConfirmedDeleteRemovesCard == [][C19_Step]_vars


\* ---- repeated drops
\* what the persistence service holds after one successful drop made from
\* the mounted state, and the columns the refetch of that gives
columnStatusOf(columnId) ==
  CASE columnId = "not-started" -> "NOT_STARTED"
    [] columnId = "in-progress" -> "IN_PROGRESS"
    [] columnId = "done" -> "DONE"

statusAfterOneDrop ==
  [a \in AssignmentIds |->
     IF a = lastDrop.aid THEN columnStatusOf(lastDrop.target) ELSE "NOT_STARTED"]

columnsAfterOneDrop ==
  deriveColumns(shownAssignmentsOf(
    currentDataOf(refreshedData(allSyllabi(statusAfterOneDrop)), data),
    selectedWeek, selectedBoardType))

\* C20: when a drop has been carried out with success, the first time, as a
\* retry after a failure or as a repeat after a success, the persistence
\* service holds and the columns show what one successful drop gives
C20_RepeatedDropSameOutcome ==
  (nDrops >= 1 /\ calls = <<>> /\ lastEvent = "fetchOk") =>
    /\ serverStatus = statusAfterOneDrop
    /\ columns = columnsAfterOneDrop

\* the drop of a card on done has succeeded, has been repeated and has
\* succeeded again: the card is in done
C20_Witness ==
  /\ nDrops = MaxDrops + 1 /\ calls = <<>> /\ lastEvent = "fetchOk" /\ ~anyFailed
  /\ lastDrop.target = "done"
  /\ displayedColumnOf(columns, lastDrop.aid) = "done"

\* the drop of a card on done has failed, has been made again and has
\* succeeded: the card is in done
C20_WitnessRetry ==
  /\ nDrops = MaxDrops + 1 /\ calls = <<>> /\ lastEvent = "fetchOk" /\ anyFailed
  /\ lastDrop.target = "done" /\ selectedBoardType = "weekly"
  /\ displayedColumnOf(columns, lastDrop.aid) = "done"


\* ---- failures
\* C21: no failure of the persistence service is left uncaught, and the
\* step in which an update or a refetch fails leaves no more requests in
\* flight than before, leaves the selection alone and, for a refetch, ends
\* with the refreshing indicator off
C21_Step ==
  lastEvent' \in {"updateFail", "fetchFail"} =>
    /\ ~uncaught'
    /\ Len(calls') <= Len(calls)
    /\ selectedWeek' = selectedWeek /\ selectedBoardType' = selectedBoardType
    /\ lastEvent' = "fetchFail" => isRefreshing' = FALSE

C21_FailuresAreCaught == [](~uncaught) /\ [][C21_Step]_vars

\* the mount-time fetch has failed and the view has accepted a drop since
C21_Witness ==
  /\ anyFailed /\ ~uncaught /\ lastEvent = "dragEnd" /\ nDrops = 1
  /\ Len(calls) = 1 /\ calls[1].op = "update"


\* ---- course colours
\* the value of the polynomial c1 * 31^(n-1) + ... + cn, for short codes
RECURSIVE poly31(_, _)
poly31(acc, code) ==
  IF code = <<>> THEN acc ELSE poly31(acc * 31 + Head(code), Tail(code))

\* the hash has left the signed 32-bit range
hashOverflowed(code) == hashOf(code).q >= 16 \/ hashOf(code).q < 0 - 16

\* C22: the colour of every course code is an entry of the palette, the
\* empty code gets the first entry, and for codes short enough that nothing
\* overflows the entry is the one at the closed-form hash modulo 15
C22_InPalette ==
  bPc = "colour" =>
    /\ \E k \in 1..PaletteSize : bColor = colors[k]
    /\ bCode = <<>> => bColor = colors[1]
    /\ Len(bCode) <= 3 => bColor = colors[(poly31(0, bCode) % PaletteSize) + 1]

\* asking again for the colour of the same code gives the same colour
C22_Step == bPc = "colour" /\ bCode' = bCode => bColor' = bColor

C22_ColourInPalette == []C22_InPalette /\ [][C22_Step]_vars

\* a code of the greatest length whose hash has left the 32-bit range, and
\* a negative hash at that, has a colour of the palette
C22_Witness ==
  /\ bPc = "colour" /\ Len(bCode) = MaxCodeLen
  /\ hashOverflowed(bCode) /\ hashOf(bCode).q < 0
  /\ \E k \in 1..PaletteSize : bColor = colors[k]


\* ---- termination of the week loop
\* the turns the loop takes: one per week from the first week to the week
\* of the latest due instant
weeksSpanned ==
  ((startOfWeek(bSorted[Len(bSorted)].dueDateTime) - startOfWeek(bSorted[1].dueDateTime))
     \div (WeekDays * DayTicks)) + 1

C23_Done ==
  bPc = "done" =>
    /\ \A i \in 1..Len(bInput) : placesOf(bBoards, bInput[i].id) # {}
    /\ bBoards = weeklyBoardsOf(bData, bNow)
    /\ Len(bInput) > 0 =>
         bWeekStart = startOfWeek(bSorted[1].dueDateTime)
                        + weeksSpanned * WeekDays * DayTicks

\* C23: for every input, the fallback items included, the week loop comes
\* to its end, after as many turns as there are weeks from the first to the
\* latest due instant, and every input item is then in a board
C23_LoopTerminates == <>(bPc = "done") /\ []C23_Done

\* the loop has ended on three items, one of which took the fallback, after
\* it passed at least one week without assignments
C23_Witness ==
  /\ bPc = "done" /\ Len(bInput) = 3
  /\ \E i \in 1..3 : unparsable(i)
  /\ weeksSpanned > Len(bBoards) /\ Len(bBoards) >= 2
  /\ \A i \in 1..3 : placesOf(bBoards, bInput[i].id) # {}


\* ---- overlapping refetches
\* the refetch whose response the step applies
appliedIn(cs, cs2) ==
  {i \in 1..Len(cs) : /\ cs[i].op = "fetch" /\ cs[i].phase = "served"
                      /\ cs2 = afterRefresh(cs[i], without(cs, i))}

C24_Step ==
  lastEvent' = "fetchOk" =>
    \E i \in appliedIn(calls, calls') :
      /\ freshData' = refreshedData(calls[i].snap)
      /\ freshData'.src = "fresh" =>
           columns' = deriveColumns(shownAssignmentsOf(freshData'.val, selectedWeek',
                                                       selectedBoardType'))

\* C24: the step that applies a refetch's response makes the working copy
\* and the columns those of that response, whatever was issued or applied
\* before it: the response applied last decides, also when its refetch was
\* issued before a refetch whose response has been applied already
C24_LastResponseWins == [][C24_Step]_vars

\* the mount refetch was answered before the drop's status update reached
\* the service and applied after the drop's refetch: nothing is in flight,
\* nothing has failed, and the card is shown in the column it was dragged
\* from while the service holds the status of the column it was dropped on
C24_Witness ==
  /\ lastEvent = "fetchOk" /\ calls = <<>> /\ ~anyFailed /\ nDrops = 1
  /\ lastDrop.aid \in AssignmentIds
  /\ serverStatus[lastDrop.aid] = statusMap(lastDrop.target)
  /\ serverStatus[lastDrop.aid] # "NOT_STARTED"
  /\ displayedColumnOf(columns, lastDrop.aid) = "not-started"
  /\ freshData.src = "fresh"
  /\ statusOfIn(freshData.val.syllabi, lastDrop.aid) = "NOT_STARTED"


\* ---- requests per drop
\* C25: every request in flight for a drop belongs to a drop that has so
\* far issued one status update and at most one refetch
C25_OneDropOneWrite ==
  \A i \in 1..Len(calls) :
    calls[i].k # "mount" => (calls[i].upd = 1 /\ calls[i].fet <= 1)


\* ---- cards without a status
columnsHolding(cols, id) ==
  {c \in {"not-started", "in-progress", "done"} : positionsIn(cols[c], id) # {}}

\* C26: as long as no card has been deleted, every assignment of the shown
\* board is in exactly one column, and one whose status is none of the three
\* values is in the not-started column
C26_MissingStatusIsNotStarted ==
  deleted = {} =>
    \A i \in 1..Len(shownAssignments) :
      /\ Cardinality(columnsHolding(columns, shownAssignments[i].id)) = 1
      /\ shownAssignments[i].status \notin {"NOT_STARTED", "IN_PROGRESS", "DONE"} =>
           columnsHolding(columns, shownAssignments[i].id) = {"not-started"}

\* ---- the selected week
\* C27: on the weekly tab, when there are boards and a week is selected, the
\* selected week is the number of one of the boards
C27_SelectedWeekExists ==
  (selectedBoardType = "weekly" /\ Len(weeklyBoards) > 0 /\ selectedWeek # 0) =>
    \E k \in 1..Len(weeklyBoards) : weeklyBoards[k].weekNumber = selectedWeek

\* ---- the refreshing indicator
\* C29: isRefreshing is true exactly when a refetch is outstanding
C29_IndicatorAccurate ==
  isRefreshing <=> (\E i \in 1..Len(calls) : calls[i].op = "fetch")

\* ---- deleted cards
\* C30: a card deleted on a weekly board is in no column of a weekly board
\* afterwards
C30_DeletionSticks == selectedBoardType = "weekly" => \A a \in deleted : ~isDisplayed(a)


\* ---- quiescence
\* C28: from some point on no request is outstanding
C28_Quiescence == <>[](calls = <<>>)


\* ---- the syllabi of the working copy
syllabusIdsOf(cd) == {cd.syllabi[k].id : k \in 1..Len(cd.syllabi)}

C31_Step ==
  lastEvent' = "fetchOk" =>
    syllabusIdsOf(currentDataOf(freshData', data')) = syllabusIdsOf(currentData)

\* C31: the step that applies a successful refetch leaves the working copy
\* with the syllabus ids it had before (the service holds every syllabus
\* throughout)
C31_RefetchKeepsSyllabi == [][C31_Step]_vars


\* ---- the requests the view sends
C32_OnlyTwoRequests ==
  \A i \in 1..Len(calls) : calls[i].op \in {"fetch", "update"}

C32_Step ==
  /\ lastEvent' \in {"delete", "deleteDeclined"} =>
       (calls' = calls /\ serverStatus' = serverStatus)
  /\ Len(calls') > Len(calls) =>
       /\ lastEvent' \in {"dragEnd", "updateOk", "fetchOk", "fetchFail"}
       /\ calls'[Len(calls')].op \in {"fetch", "update"}

\* C32: every request in flight is a fetch of all syllabi or a status
\* update; a request is added only by a drop or by the continuation of an
\* earlier request, and the step of a card deletion, confirmed or not, sends
\* nothing and leaves the service's records alone
C32_ReadsAndStatusUpdatesOnly == []C32_OnlyTwoRequests /\ [][C32_Step]_vars

\* a card has been deleted and confirmed while only the mount refetch is in
\* flight
C32_Witness ==
  /\ lastEvent = "delete" /\ deleted # {}
  /\ Len(calls) = 1 /\ calls[1].op = "fetch"


\* ---- order inside a board
\* the input position of the assignment with this id
inputPosition(id) == CHOOSE i \in 1..Len(bInput) : bInput[i].id = id

\* C33: inside every board the due instants do not decrease, and of two
\* assignments with the same due instant the one that is earlier in the
\* input is earlier in the board
C33_StableSorted ==
  bPc = "done" =>
    \A k \in 1..Len(bBoards) :
      LET as == bBoards[k].assignments
      IN \A i \in 1..Len(as) : \A j \in 1..Len(as) :
           i < j =>
             /\ as[i].dueDateTime <= as[j].dueDateTime
             /\ as[i].dueDateTime = as[j].dueDateTime =>
                  inputPosition(as[i].id) < inputPosition(as[j].id)

\* a board holds three assignments: the last of the input is due first and
\* stands first, the other two are due at the same instant and stand in
\* their input order
C33_Witness ==
  /\ bPc = "done" /\ Len(bInput) = 3 /\ Len(bBoards) = 1
  /\ bBoards[1].assignments[1].id = 3
  /\ bBoards[1].assignments[2].id = 1
  /\ bBoards[1].assignments[3].id = 2
  /\ bBoards[1].assignments[2].dueDateTime = bBoards[1].assignments[3].dueDateTime
  /\ bBoards[1].assignments[1].dueDateTime < bBoards[1].assignments[2].dueDateTime


\* ---- the windows of the boards
bDueInstants ==
  {assignmentsWithId(bData, bNow)[i].dueDateTime : i \in 1..Len(bInput)}

bEarliest == CHOOSE t \in bDueInstants : \A u \in bDueInstants : t <= u

\* C34: the first board starts at the Monday 00:00 at or before the earliest
\* due instant; every board starts a whole number of weeks after the first,
\* on a Monday at 00:00, ends with the last tick of the Sunday six days
\* later, and holds only assignments due from its start to its end
C34_MondayWindows ==
  (bPc = "done" /\ Len(bInput) > 0) =>
    /\ Len(bBoards) > 0
    /\ bBoards[1].startDate <= bEarliest
    /\ bEarliest < bBoards[1].startDate + WeekDays * DayTicks
    /\ \A k \in 1..Len(bBoards) :
         /\ getDay(bBoards[k].startDate) = 1
         /\ bBoards[k].startDate % DayTicks = 0
         /\ (bBoards[k].startDate - bBoards[1].startDate) % (WeekDays * DayTicks) = 0
         /\ bBoards[k].endDate = bBoards[k].startDate + WeekDays * DayTicks - 1
         /\ getDay(bBoards[k].endDate) = 0
         /\ \A j \in 1..Len(bBoards[k].assignments) :
              /\ bBoards[k].startDate <= bBoards[k].assignments[j].dueDateTime
              /\ bBoards[k].assignments[j].dueDateTime <= bBoards[k].endDate

\* the earliest assignment is due on a Sunday, so the first window starts
\* six days before it, and another board starts three weeks after the first
C34_Witness ==
  /\ bPc = "done" /\ Len(bBoards) = 2
  /\ getDay(bEarliest) = 0
  /\ bBoards[1].startDate = ((bEarliest \div DayTicks) - 6) * DayTicks
  /\ bBoards[2].startDate = bBoards[1].startDate + 3 * WeekDays * DayTicks

\* C35: in the editor, an action requested with unsaved changes is executed
\* at most once, and an action the user cancelled is never executed,
\* whatever the order of the Save, Continue and Cancel clicks and of the
\* completion of the save request
C35_OnceAndNotAfterCancel ==
  \A n \in 1..MaxActions :
    /\ executed[n] <= 1
    /\ n \in cancelled => executed[n] = 0

\* C36: a save that cannot be sent or that fails changes nothing: without a
\* syllabus id handleSave sends no request, and when updateSyllabus fails
\* the unsaved-changes flag, originalDataRef, the data given to onDataChange,
\* the modal and its pending action stay as they were, no action is run or
\* scheduled, and isSaving is false again
C36_NoIdNoRequest == syllabusId = 0 => saves = <<>>

C36_SaveFails ==
  \E i \in 1..Len(saves) :
    i <= Len(saves') /\ saves[i].state = "sent" /\ saves'[i].state = "failed"

C36_Step ==
  C36_SaveFails =>
    /\ hasUnsavedChanges' = hasUnsavedChanges
    /\ originalDataRef' = originalDataRef
    /\ nDataChange' = nDataChange /\ assignmentData' = assignmentData
    /\ showConfirmModal' = showConfirmModal /\ pendingAction' = pendingAction
    /\ executed' = executed /\ timers' = timers
    /\ isSaving' = FALSE

C36_FailedSaveChangesNothing == []C36_NoIdNoRequest /\ [][C36_Step]_vars

\* C36 witness: a save has failed while the modal is open on unsaved changes
C36_Witness ==
  /\ \E i \in 1..Len(saves) : saves[i].state = "failed"
  /\ showConfirmModal /\ ~pendingAction.isNull /\ hasUnsavedChanges /\ ~isSaving

\* the minute a calendar reads from a date and a 12-hour time
csvInstant(date, time) ==
  date * 24 * 60
    + ((time.hours % 12) + (IF time.period = "PM" THEN 12 ELSE 0)) * 60
    + time.minutes

\* C37: the exported row of an assignment with a well-formed 12-hour due
\* time ends exactly one hour after it starts, also when the due time is
\* between 11:00 PM and 11:59 PM
C37_OneHourEvent ==
  csvRow # <<>> =>
    csvInstant(csvRow.endDate, csvRow.endTime)
      = csvInstant(csvRow.startDate, csvRow.startTime) + 60

\* the delete requests of the log that settle in this step, by their answer
settlingDeletes(results) ==
  {i \in 1..Len(requests) :
     /\ requests[i].op = "delete" /\ requests[i].result \in results
     /\ requests[i].state = "answered" /\ requests'[i].state = "done"}

\* C38: a syllabus leaves savedSyllabi only when the user has confirmed its
\* delete in the modal and the delete request has been answered with
\* success; a step that settles a delete answered with success false or
\* with an error leaves the list as it was and sets an error message; and
\* closing the modal by Cancel, or by confirming a syllabus without an id,
\* leaves the list as it was
C38_Step ==
  /\ \A id \in seqIds(savedSyllabi) \ seqIds(savedSyllabi') :
       \E i \in 1..Len(requests') :
         /\ requests'[i].op = "delete" /\ requests'[i].arg = id
         /\ requests'[i].result = "success"
  /\ settlingDeletes({"failure", "throw"}) # {} =>
       /\ savedSyllabi' = savedSyllabi
       /\ error' \in {"Failed to delete syllabus", "Error deleting syllabus"}
  /\ (deleteModalOpen /\ ~deleteModalOpen' /\ settlingDeletes({"success"}) = {}) =>
       savedSyllabi' = savedSyllabi

C38_RemovedOnlyByConfirmedDelete == [][C38_Step]_vars

\* the Start-AI-Analysis step is offered for a file that was dropped while
\* a syllabus was open
C39_Offered ==
  isUploaded /\ uploadedFile \in droppedWhileOpen /\ assignmentData.isNull

\* C39: a PDF dropped while a syllabus is open can be analysed: the step
\* that closes the open syllabus while the dropped file is held keeps the
\* file and its uploaded state, so that the analysis of that file is
\* offered once no assignment data is shown
C39_Step ==
  (/\ ~assignmentData.isNull /\ isUploaded /\ uploadedFile \in droppedWhileOpen
   /\ assignmentData'.isNull)
    => C39_Offered'

C39_DroppedFileCanBeAnalysed == [][C39_Step]_vars

====
